---- MODULE Spec2Model ----
(***************************************************************************)
(* The asynchronous evaluation pipeline of ai-cv-evaluator: the Job Store  *)
(* (mongoose model Evaluation), the submission controller, the BullMQ      *)
(* worker and the optimistic-locking update service.                       *)
(*                                                                         *)
(* Every await of the JavaScript code is an interleaving point, so each    *)
(* handler is a small process whose steps are the stretches of code        *)
(* between two awaits on the database or the queue.                        *)
(***************************************************************************)
EXTENDS Integers, Sequences, FiniteSets, TLC

\* ------------------------------------------------------------- bounds
NumJobIds == 2      \* values generateJobId can return
NumUsers == 2
NumReqs == 2        \* concurrent Submit requests
NumWorkers == 2     \* worker processes
NumCancels == 1     \* Cancel requests
MaxRedeliver == 1   \* re-deliveries of a work item by the queue
MaxTime == 2        \* clock values (new Date())
NumUpdaters == 2    \* concurrent callers of updateStatusSafe
MaxCalls == 3       \* calls each of them makes
NumReaders == 1     \* GetStatus and List requests
MaxCancelCalls == 2  \* Cancel requests one client sends in a row
MaxSearches == 2    \* Search requests the RAG service serves
MaxMarks == 2       \* characters of a text that are not letters
MaxChunks == 3      \* chunks in a collection of the vector index
MaxCompletions == 3 \* chat calls made on one LLM connection
MaxTextLen == 2     \* characters of a text that is embedded

JobIds == 1..NumJobIds
Users == 1..NumUsers
Reqs == 1..NumReqs
Workers == 1..NumWorkers
Cancels == 1..NumCancels
Updaters == 1..NumUpdaters
Readers == 1..NumReaders

\* ---------------------------------------------------- program constants
Null == "null"
NoTime == 0

\* evaluation.model.js: the enum of the status path
StatusEnum == {"queued", "processing", "completed", "failed"}

\* the Document collection the controller reads: document d has a type
\* and an uploader
Docs == {1, 2}
DocRefs == Docs \cup {0}       \* 0: an id that resolves to no document
DocType(d) == IF d = 2 THEN "project_report" ELSE "cv"
DocOwner(d) == 1

\* the message of what performEvaluation throws
EngineErrors == {"errA", "errB"}

\* ------------------------------------------ JavaScript values and scores
\* A value of a score or text field: a number (scores are counted in
\* hundredths: 0.85 is 85 and 4.2 is 420), NaN, a string, or undefined.
Num(n) == [t |-> "number", v |-> n]
Str(s) == [t |-> "string", v |-> s]
NaN == [t |-> "NaN", v |-> 0]
undefined == [t |-> "undefined", v |-> 0]

\* obj.field and obj?.field: a property the object lacks reads undefined
get(obj, field) ==
  IF obj = undefined THEN undefined
  ELSE IF field \in DOMAIN obj THEN obj[field] ELSE undefined

\* a || b: b when a is falsy (undefined, NaN, 0, '')
Or(a, b) ==
  IF a.t \in {"undefined", "NaN"} \/ a = Num(0) \/ a = Str("") THEN b ELSE a

Math_min(a, b) == IF a < b THEN a ELSE b
Math_max(a, b) == IF a > b THEN a ELSE b

\* validateScore(score, defaultValue, min = 0, max = 1)
validateScore(score, defaultValue, min, max) ==
  IF score.t # "number"
  THEN Num(defaultValue)
  ELSE Num(Math_min(Math_max(score.v, min), max))

\* The text the LLM puts after "RECOMMENDATION:", as its characters; the
\* empty text stands for an answer without such a line.
RecommendationTexts ==
  { <<>>,
    <<"H","I","R","E">>,
    <<"h","i","r","e">>,
    <<"C","O","N","D","I","T","I","O","N","A","L","_","H","I","R","E">>,
    <<"R","E","J","E","C","T">>,
    <<"N","O"," ","H","I","R","E">>,
    <<"M","A","Y","B","E">>,
    <<"S","T","R","O","N","G"," ","Y","E","S">> }

Recommendations == {"HIRE", "CONDITIONAL_HIRE", "REJECT"}

\* String.prototype.toUpperCase, on the letters the texts use
toUpperCase(text) ==
  [i \in 1..Len(text) |->
     CASE text[i] = "h" -> "H" [] text[i] = "i" -> "I"
       [] text[i] = "r" -> "R" [] text[i] = "e" -> "E"
       [] OTHER -> text[i]]

\* String.prototype.includes
includes(text, word) ==
  \E i \in 1..(Len(text) - Len(word) + 1) :
     SubSeq(text, i, i + Len(word) - 1) = word

\* normalizeRecommendation lines 520-532
normalizeRecommendation(recommendation) ==
  LET normalized == toUpperCase(recommendation) IN
  IF includes(normalized, <<"H","I","R","E">>)
     /\ ~includes(normalized, <<"C","O","N","D","I","T","I","O","N","A","L">>)
  THEN "HIRE"
  ELSE IF includes(normalized, <<"C","O","N","D","I","T","I","O","N","A","L">>)
          \/ includes(normalized, <<"M","A","Y","B","E">>)
  THEN "CONDITIONAL_HIRE"
  ELSE IF includes(normalized, <<"R","E","J","E","C","T">>)
          \/ includes(normalized, <<"N","O">>)
  THEN "REJECT"
  ELSE "CONDITIONAL_HIRE"

\* parseCVEvaluation lines 412-437, on the object parsed from the answer
parseCVEvaluation(evaluation) ==
  [matchRate |-> validateScore(get(evaluation, "matchRate"), 50, 0, 100),
   experienceMatch |-> validateScore(get(evaluation, "experienceMatch"), 50, 0, 100)]

\* parseProjectEvaluation lines 445-470
parseProjectEvaluation(evaluation) ==
  [overallScore |-> validateScore(get(evaluation, "overallScore"), 300, 100, 500),
   technicalQuality |-> validateScore(get(evaluation, "technicalQuality"), 300, 100, 500),
   complexityLevel |-> validateScore(get(evaluation, "complexityLevel"), 300, 100, 500),
   innovationScore |-> validateScore(get(evaluation, "innovationScore"), 300, 100, 500),
   documentationQuality |->
      validateScore(get(evaluation, "documentationQuality"), 300, 100, 500)]

\* parseOverallRecommendation lines 477-498: the text after "RECOMMENDATION:"
\* or 'CONDITIONAL_HIRE' when the answer has no such line, normalized
parseOverallRecommendation(content) ==
  LET recommendation ==
        IF content # <<>> THEN content
        ELSE <<"C","O","N","D","I","T","I","O","N","A","L","_","H","I","R","E">>
  IN [recommendation |-> Str(normalizeRecommendation(recommendation)),
      detailedFeedback |-> Str("feedback")]

\* performEvaluation lines 85-117: the results object compiled from the
\* three stages
performEvaluation_results(cvEvaluation, projectEvaluation, overallRecommendation) ==
  [cvMatchRate |-> cvEvaluation.matchRate,
   projectScore |-> projectEvaluation.overallScore,
   overallRecommendation |-> overallRecommendation.recommendation,
   cvAnalysis |-> [experienceMatch |-> cvEvaluation.experienceMatch],
   projectAnalysis |->
      [technicalQuality |-> projectEvaluation.technicalQuality,
       complexityLevel |-> projectEvaluation.complexityLevel,
       innovationScore |-> projectEvaluation.innovationScore,
       documentationQuality |-> projectEvaluation.documentationQuality],
   detailedFeedback |-> overallRecommendation.detailedFeedback]

\* generateFallbackCVEvaluation lines 575-600 and
\* generateFallbackProjectEvaluation lines 609-642, for a CV that shares no
\* word with the job title and a short project text without code
generateFallbackCVEvaluation == [matchRate |-> Num(30), experienceMatch |-> Num(30)]
generateFallbackProjectEvaluation ==
  [overallScore |-> Num(300), technicalQuality |-> Num(300),
   complexityLevel |-> Num(300), innovationScore |-> Num(300),
   documentationQuality |-> Num(300)]

\* what performEvaluation returns: resA when the LLM answered every stage
\* (matchRate 0.85, overallScore 4.2, HIRE), resB when a fallback evaluation
\* took the place of an answer
resA ==
  performEvaluation_results(
      parseCVEvaluation([matchRate |-> Num(85), experienceMatch |-> Num(85)]),
      parseProjectEvaluation([overallScore |-> Num(420)]),
      parseOverallRecommendation(<<"H","I","R","E">>))
resB ==
  performEvaluation_results(
      generateFallbackCVEvaluation,
      generateFallbackProjectEvaluation,
      parseOverallRecommendation(<<"M","A","Y","B","E">>))
Results == {resA, resB}
NoResults == [cvMatchRate |-> undefined]

\* the paths of the result of the schema, evaluation.model.js lines 31-64
ResultPaths ==
  {"cv_match_rate", "cv_feedback", "cv_breakdown.technical_skills",
   "cv_breakdown.experience_level", "cv_breakdown.achievements",
   "cv_breakdown.cultural_fit", "project_score", "project_feedback",
   "project_breakdown.correctness", "project_breakdown.code_quality",
   "project_breakdown.resilience", "project_breakdown.documentation",
   "project_breakdown.creativity", "overall_summary"}

\* the result of a record that has none
EmptyResult == [p \in ResultPaths |-> undefined]

\* The result object of the completed write, worker lines 162-180.
worker_result(result) ==
  [p \in {"cv_match_rate", "cv_feedback", "cv_breakdown.technical_skills",
          "cv_breakdown.experience_level", "cv_breakdown.achievements",
          "cv_breakdown.cultural_fit", "project_score", "project_feedback",
          "project_breakdown.correctness", "project_breakdown.code_quality",
          "project_breakdown.innovation", "project_breakdown.documentation",
          "overall_recommendation", "match_percentage"} |->
     CASE p = "cv_match_rate" -> Or(get(result, "cvMatchRate"), Num(80))
       [] p = "cv_feedback" ->
            Or(get(result, "detailedFeedback"),
               Or(get(get(result, "cvEvaluation"), "feedback"),
                  Str("Evaluation completed")))
       [] p = "cv_breakdown.technical_skills" ->
            Or(get(get(result, "cvAnalysis"), "technicalSkills"), Num(80))
       [] p = "cv_breakdown.experience_level" ->
            Or(get(get(result, "cvAnalysis"), "experienceMatch"), Num(80))
       [] p = "cv_breakdown.achievements" ->
            Or(get(get(result, "cvAnalysis"), "achievements"), Num(90))
       [] p = "cv_breakdown.cultural_fit" ->
            Or(get(get(result, "cvAnalysis"), "culturalFit"), Num(85))
       [] p = "project_score" -> Or(get(result, "projectScore"), Num(8500))
       [] p = "project_feedback" ->
            Or(get(get(result, "projectEvaluation"), "feedback"),
               Str("Project evaluation completed"))
       [] p = "project_breakdown.correctness" ->
            Or(get(get(result, "projectAnalysis"), "correctness"), Num(400))
       [] p = "project_breakdown.code_quality" ->
            Or(get(get(result, "projectAnalysis"), "codeQuality"), Num(400))
       [] p = "project_breakdown.innovation" ->
            Or(get(get(result, "projectAnalysis"), "innovation"), Num(400))
       [] p = "project_breakdown.documentation" ->
            Or(get(get(result, "projectAnalysis"), "documentation"), Num(400))
       [] p = "overall_recommendation" ->
            Or(get(result, "overallRecommendation"),
               Str("Candidate evaluation completed"))
       [] p = "match_percentage" -> Or(get(result, "matchPercentage"), Num(8250))]

\* Mongoose casts the result of an update by the schema (strict mode): a
\* path the schema does not have is dropped, a path the update does not
\* have is unset.
castResult(update) ==
  [p \in ResultPaths |-> IF p \in DOMAIN update THEN update[p] ELSE undefined]

\* updateEvaluationSafe(evaluationId, updateData, retryCount = 3)
retryCount == 3

VARIABLES
  store,     \* the evaluations collection, keyed by jobId (unique index)
  now,       \* the clock
  queue,     \* the "evaluation" queue: pending work items per evaluation
  redeliv,   \* work items the queue has delivered again so far
  sub,       \* the Submit requests (startEvaluation)
  wk,        \* the worker processes (evaluationWorker)
  entry,     \* how the worker processes were started
  cn,        \* the Cancel requests (cancelEvaluation)
  up,        \* the callers of updateStatusSafe
  eng,       \* the Engine of each worker process (evaluationService)
  rd,        \* the GetStatus and List requests (getResult, getEvaluations)
  documents, \* the documents collection: the ids that resolve to a document
  srch,      \* the RAG service and the vector index (searchRelevantChunks)
  chk,       \* the chunker of indexDocument (splitTextIntoChunks)
  hits,      \* the chunks a Search finds and returns (searchRelevantChunks)
  gen,       \* the LLM connection serving chat calls (generateCompletion)
  emb,       \* the embeddings made of one text (llm generateEmbeddings)
  scr        \* the scoring stages of one evaluation (evaluateCV, evaluateProject)

vars == <<store, now, queue, redeliv, sub, wk, entry, cn, up, eng, rd, documents, srch, chk, hits, gen, emb, scr>>

\* ------------------------------------------------------------ the store
Absent ==
  [status |-> "absent", result |-> EmptyResult, errorMessage |-> Null,
   retryCount |-> 0, processingStartedAt |-> NoTime,
   processingCompletedAt |-> NoTime, createdAt |-> NoTime,
   createdBy |-> 0, cvDocumentId |-> 0, projectDocumentId |-> 0, v |-> 0]

Exists(j) == store[j].status # "absent"

\* Evaluation.findByIdAndUpdate(id, patch): every path of the patch that
\* the schema knows is set, whatever the record holds; __v is not touched
\* and no validator runs.
findByIdAndUpdate(j, patch) ==
  [f \in DOMAIN store[j] |->
     IF f \in DOMAIN patch THEN patch[f] ELSE store[j][f]]

\* ------------------------------------------------------------ the clock
Tick ==
  /\ now < MaxTime
  /\ now' = now + 1
  /\ UNCHANGED <<store, queue, redeliv, sub, wk, entry, cn, up, eng, rd, documents, srch, chk, hits, gen, emb, scr>>

\* ------------------------------------------------- Submit: startEvaluation
SubIdle == [pc |-> "idle", user |-> 0, cv |-> 0, proj |-> 0, job |-> 0,
            attempt |-> 0, resp |-> 0]

\* generateJobId: "eval_" + base36(Date.now()) + "_" + 12 hex digits of
\* randomBytes(6): any value of the id space, nothing makes it fresh.
generateJobId == JobIds

\* documentService.getDocumentById(documentId): findById, which throws the
\* 404 itself when nothing is found; the second argument the controller
\* passes (userId) is not a parameter of it.
getDocumentById(d, userId) == d \in documents

\* evaluation.validation.js, startEvaluation: job_title is
\* Joi.string().required().min(3).max(100); the route runs this validation
\* before the controller. A title is modelled by its length.
job_title_min == 3
job_title_max == 100
TitleLens == {job_title_min - 1, job_title_min, job_title_max, job_title_max + 1}
validate(len) == job_title_min <= len /\ len <= job_title_max

\* startEvaluation with the record created before the types of the
\* documents are checked
startEvaluation_createsFirst(r) ==
  /\ sub[r].pc = "idle"
  /\ \E userId \in Users, cv_id \in DocRefs, project_id \in DocRefs,
        job_title \in TitleLens :
       IF ~validate(job_title)
       THEN /\ sub' = [sub EXCEPT ![r] = [SubIdle EXCEPT !.pc = "rejected", !.resp = 400]]
            /\ store' = store
       ELSE IF ~getDocumentById(cv_id, userId) \/ ~getDocumentById(project_id, userId)
       THEN /\ sub' = [sub EXCEPT ![r] = [SubIdle EXCEPT !.pc = "rejected", !.resp = 404]]
            /\ store' = store
       ELSE \E jobId \in generateJobId :
              IF DocType(cv_id) # "cv" \/ DocType(project_id) # "project_report"
              THEN /\ sub' = [sub EXCEPT ![r] = [SubIdle EXCEPT !.pc = "rejected", !.resp = 400]]
                   /\ store' = [store EXCEPT ![jobId] =
                                  [Absent EXCEPT !.status = "queued",
                                                 !.createdBy = userId,
                                                 !.cvDocumentId = cv_id,
                                                 !.projectDocumentId = project_id,
                                                 !.createdAt = now]]
              ELSE /\ sub' = [sub EXCEPT ![r] =
                                [SubIdle EXCEPT !.pc = "create", !.user = userId,
                                                !.cv = cv_id, !.proj = project_id,
                                                !.job = jobId]]
                   /\ store' = store
  /\ UNCHANGED <<now, queue, redeliv, wk, entry, cn, up, eng, rd, documents, srch, chk, hits, gen, emb, scr>>

\* POST /evaluate: the validation of the body, then lines 17-42 of the
\* controller: the document checks, then the job id is minted
startEvaluation(r) ==
  /\ sub[r].pc = "idle"
  /\ \E userId \in Users, cv_id \in DocRefs, project_id \in DocRefs,
        job_title \in TitleLens :
       IF ~validate(job_title)
       THEN sub' = [sub EXCEPT ![r] = [SubIdle EXCEPT !.pc = "rejected", !.resp = 400]]
       ELSE IF ~getDocumentById(cv_id, userId) \/ ~getDocumentById(project_id, userId)
       THEN sub' = [sub EXCEPT ![r] = [SubIdle EXCEPT !.pc = "rejected", !.resp = 404]]
       ELSE IF DocType(cv_id) # "cv" \/ DocType(project_id) # "project_report"
       THEN sub' = [sub EXCEPT ![r] = [SubIdle EXCEPT !.pc = "rejected", !.resp = 400]]
       ELSE \E jobId \in generateJobId :
              sub' = [sub EXCEPT ![r] =
                        [SubIdle EXCEPT !.pc = "create", !.user = userId,
                                        !.cv = cv_id, !.proj = project_id,
                                        !.job = jobId]]
  /\ UNCHANGED <<store, now, queue, redeliv, wk, entry, cn, up, eng, rd, documents, srch, chk, hits, gen, emb, scr>>

\* startEvaluation without its await of createEvaluationAtomic: the item is
\* put on the queue while the record is still to be written
createEvaluationAtomic_notAwaited(r) ==
  /\ sub[r].pc = "create"
  /\ sub' = [sub EXCEPT ![r].pc = "enqueue"]
  /\ UNCHANGED <<store, now, queue, redeliv, wk, entry, cn, up, eng, rd, documents, srch, chk, hits, gen, emb, scr>>

\* createEvaluationAtomic, the findOneAndUpdate({jobId}, {...}, {upsert}):
\* a record with this jobId is updated in place (status back to 'queued',
\* createdBy of this caller; createdAt belongs to the timestamps plugin and
\* is set on insert only); otherwise the server goes on to insert.
createEvaluationAtomic_upsert(r) ==
  /\ sub[r].pc = "create"
  /\ LET j == sub[r].job IN
       IF Exists(j)
       THEN /\ store' = [store EXCEPT ![j] =
                           findByIdAndUpdate(j, [status |-> "queued",
                                                 createdBy |-> sub[r].user,
                                                 cvDocumentId |-> sub[r].cv,
                                                 projectDocumentId |-> sub[r].proj])]
            /\ sub' = [sub EXCEPT ![r].pc = "enqueue"]
       ELSE /\ store' = store
            /\ sub' = [sub EXCEPT ![r].pc = "insert"]
  /\ UNCHANGED <<now, queue, redeliv, wk, entry, cn, up, eng, rd, documents, srch, chk, hits, gen, emb, scr>>

\* the insert half of the upsert: the unique index on jobId lets one of two
\* racing inserts through and fails the other with code 11000, which the
\* catch answers with Evaluation.findOne({jobId}) (lines 44-56)
createEvaluationAtomic_insert(r) ==
  /\ sub[r].pc = "insert"
  /\ LET j == sub[r].job IN
       IF ~Exists(j)
       THEN /\ store' = [store EXCEPT ![j] =
                           [Absent EXCEPT !.status = "queued",
                                          !.createdBy = sub[r].user,
                                          !.cvDocumentId = sub[r].cv,
                                          !.projectDocumentId = sub[r].proj,
                                          !.createdAt = now]]
            /\ sub' = [sub EXCEPT ![r].pc = "enqueue"]
       ELSE /\ store' = store
            /\ sub' = [sub EXCEPT ![r].pc = "enqueue",
                                  ![r].attempt = sub[r].attempt + 1]
  /\ UNCHANGED <<now, queue, redeliv, wk, entry, cn, up, eng, rd, documents, srch, chk, hits, gen, emb, scr>>

\* lines 68-86: evaluationQueue.addEvaluationJob, then the 202 answer
startEvaluation_enqueue(r) ==
  /\ sub[r].pc = "enqueue"
  /\ queue' = [queue EXCEPT ![sub[r].job] = @ + 1]
  /\ sub' = [sub EXCEPT ![r].pc = "done", ![r].resp = 202]
  /\ UNCHANGED <<store, now, redeliv, wk, entry, cn, up, eng, rd, documents, srch, chk, hits, gen, emb, scr>>

\* lines 88-105: addEvaluationJob throws; the catch logs and answers with an
\* ApiError, the record is left as it is
startEvaluation_enqueueFails(r) ==
  /\ sub[r].pc = "enqueue"
  /\ sub' = [sub EXCEPT ![r].pc = "error", ![r].resp = 500]
  /\ UNCHANGED <<store, now, queue, redeliv, wk, entry, cn, up, eng, rd, documents, srch, chk, hits, gen, emb, scr>>

\* ------------------------------------------- the worker: evaluationWorker
\* llm is what the LLM answered in the Engine run of the item
NoAnswers == [matchRate |-> undefined, experienceMatch |-> undefined,
              overallScore |-> undefined, recommendation |-> <<>>]
WkIdle == [pc |-> "idle", job |-> 0, res |-> NoResults, err |-> Null,
           outcome |-> "none", closing |-> FALSE, v0 |-> 0, at |-> "idle",
           llm |-> NoAnswers]

InFlight == {"start", "engine", "complete", "catch"}

\* where a worker goes after its last write for an item: to the next item,
\* or out, when worker.close() is waiting for it
AfterItem(w) == IF wk[w].closing THEN "exited" ELSE "idle"

\* BullMQ hands the next work item to the processor
worker_take(w) ==
  /\ wk[w].pc = "idle"
  /\ \E j \in JobIds :
       /\ queue[j] > 0
       /\ queue' = [queue EXCEPT ![j] = @ - 1]
       /\ wk' = [wk EXCEPT ![w] = [WkIdle EXCEPT !.pc = "start", !.job = j]]
  /\ UNCHANGED <<store, now, redeliv, sub, entry, cn, up, eng, rd, documents, srch, chk, hits, gen, emb, scr>>

\* the processor without its first write: the Engine is started for an
\* item that was not moved to processing
worker_processing_skipsWrite(w) ==
  /\ wk[w].pc = "start"
  /\ wk' = [wk EXCEPT ![w].pc = "engine", ![w].v0 = store[wk[w].job].v]
  /\ UNCHANGED <<store, now, queue, redeliv, sub, entry, cn, up, eng, rd, documents, srch, chk, hits, gen, emb, scr>>

\* lines 129-143: findByIdAndUpdate(evaluationId, {status: 'processing',
\* processingStartedAt: new Date()}); a missing record throws
worker_processing(w) ==
  /\ wk[w].pc = "start"
  /\ LET j == wk[w].job IN
       IF Exists(j)
       THEN /\ store' = [store EXCEPT ![j] =
                           findByIdAndUpdate(j, [status |-> "processing",
                                                 processingStartedAt |-> now])]
            /\ wk' = [wk EXCEPT ![w].pc = "engine", ![w].v0 = store[j].v]
       ELSE /\ store' = store
            /\ wk' = [wk EXCEPT ![w].pc = "catch", ![w].err = "not found"]
  /\ UNCHANGED <<now, queue, redeliv, sub, entry, cn, up, eng, rd, documents, srch, chk, hits, gen, emb, scr>>

\* line 154: evaluationService.performEvaluation returns a result
worker_engineReturns(w) ==
  /\ wk[w].pc = "engine"
  /\ \E result \in Results :
       wk' = [wk EXCEPT ![w].pc = "complete", ![w].res = result]
  /\ UNCHANGED <<store, now, queue, redeliv, sub, entry, cn, up, eng, rd, documents, srch, chk, hits, gen, emb, scr>>

\* the values the LLM can put in a score field of its JSON answer: in
\* range, at the ends of the range, out of range, NaN, not a number, or no
\* such field
LLMScores ==
  {Num(-50), Num(0), Num(85), Num(100), Num(150), NaN, Str("high"), undefined}
LLMExperienceScores == {Num(0), Num(85), Num(150), undefined}
LLMProjectScores ==
  {Num(0), Num(100), Num(420), Num(500), Num(900), Str("good"), undefined}

\* line 154, performEvaluation (lines 38-123) in a run in which every call
\* of the LLM succeeds: evaluateCV and evaluateProject parse the JSON of the
\* answer, generateOverallRecommendation parses the text, and the results
\* are compiled from the three
performEvaluation_answered(w) ==
  /\ wk[w].pc = "engine"
  /\ \E matchRate \in LLMScores, experienceMatch \in LLMExperienceScores,
        overallScore \in LLMProjectScores, content \in RecommendationTexts :
       wk' = [wk EXCEPT
                ![w].pc = "complete",
                ![w].llm = [matchRate |-> matchRate,
                            experienceMatch |-> experienceMatch,
                            overallScore |-> overallScore,
                            recommendation |-> content],
                ![w].res =
                   performEvaluation_results(
                      parseCVEvaluation([matchRate |-> matchRate,
                                         experienceMatch |-> experienceMatch]),
                      parseProjectEvaluation([overallScore |-> overallScore]),
                      parseOverallRecommendation(content))]
  /\ UNCHANGED <<store, now, queue, redeliv, sub, entry, cn, up, eng, rd, documents, srch, chk, hits, gen, emb, scr>>

\* line 154: evaluationService.performEvaluation throws
worker_engineThrows(w) ==
  /\ wk[w].pc = "engine"
  /\ \E error \in EngineErrors :
       wk' = [wk EXCEPT ![w].pc = "catch", ![w].err = error]
  /\ UNCHANGED <<store, now, queue, redeliv, sub, entry, cn, up, eng, rd, documents, srch, chk, hits, gen, emb, scr>>

\* the completed write with a filter that matches every record
\* (updateMany({}, ...)) instead of the id of the item
worker_completed_everyRecord(w) ==
  /\ wk[w].pc = "complete"
  /\ store' = [j \in JobIds |->
                 IF Exists(j)
                 THEN findByIdAndUpdate(j, [status |-> "completed",
                                            result |-> castResult(worker_result(wk[w].res))])
                 ELSE store[j]]
  /\ wk' = [wk EXCEPT ![w] = [WkIdle EXCEPT !.pc = AfterItem(w),
                                            !.outcome = "completed"]]
  /\ UNCHANGED <<now, queue, redeliv, sub, entry, cn, up, eng, rd, documents, srch, chk, hits, gen, emb, scr>>

\* lines 157-190: findByIdAndUpdate(evaluationId, {status: 'completed',
\* completedAt, result}); completedAt is no path of the schema, so status
\* and the paths of result that the schema has are what reaches the record.
\* The call returns the record.
worker_completed(w) ==
  /\ wk[w].pc = "complete"
  /\ LET j == wk[w].job IN
       store' = [store EXCEPT ![j] =
                   findByIdAndUpdate(j, [status |-> "completed",
                                         result |-> castResult(worker_result(wk[w].res))])]
  /\ wk' = [wk EXCEPT ![w] = [WkIdle EXCEPT !.pc = AfterItem(w),
                                            !.outcome = "completed"]]
  /\ UNCHANGED <<now, queue, redeliv, sub, entry, cn, up, eng, rd, documents, srch, chk, hits, gen, emb, scr>>

\* lines 192-215, the catch block: findByIdAndUpdate(evaluationId, {status:
\* 'failed', error: error.message, failedAt}); error and failedAt are no
\* paths of the schema, so status is what reaches the record. The error is
\* thrown on to BullMQ, which marks the queue job failed.
worker_catch(w) ==
  /\ wk[w].pc = "catch"
  /\ LET j == wk[w].job IN
       store' = IF Exists(j)
                THEN [store EXCEPT ![j] = findByIdAndUpdate(j, [status |-> "failed"])]
                ELSE store
  /\ wk' = [wk EXCEPT ![w] = [WkIdle EXCEPT !.pc = AfterItem(w),
                                            !.outcome = "failed"]]
  /\ UNCHANGED <<now, queue, redeliv, sub, entry, cn, up, eng, rd, documents, srch, chk, hits, gen, emb, scr>>

\* SIGTERM or SIGINT reaches a worker process started by
\* scripts/startWorker.js. The worker module was imported first, so its
\* handler runs first, up to its await of worker.close(); then the handler
\* of startWorker.js runs and calls process.exit(0) at once.
signal_startWorker(w) ==
  /\ entry = "startWorker"
  /\ wk[w].pc # "exited"
  /\ wk' = [wk EXCEPT ![w].pc = "exited", ![w].at = wk[w].pc]
  /\ UNCHANGED <<store, now, queue, redeliv, sub, entry, cn, up, eng, rd, documents, srch, chk, hits, gen, emb, scr>>

\* SIGTERM or SIGINT reaches a worker process that runs the worker module
\* alone (lines 235-253): worker.close() takes no further item and resolves
\* when the current one is done, then process.exit(0).
signal_evaluationWorker(w) ==
  /\ entry = "evaluationWorker"
  /\ wk[w].pc # "exited"
  /\ ~wk[w].closing
  /\ wk' = IF wk[w].pc = "idle"
           THEN [wk EXCEPT ![w].pc = "exited"]
           ELSE [wk EXCEPT ![w].closing = TRUE]
  /\ UNCHANGED <<store, now, queue, redeliv, sub, entry, cn, up, eng, rd, documents, srch, chk, hits, gen, emb, scr>>

\* The queue is at-least-once: an item whose worker holds it (its lock
\* lapsed) or died with it is put back for another delivery.
queue_redeliver(w) ==
  /\ redeliv < MaxRedeliver
  /\ \/ wk[w].pc \in InFlight
     \/ wk[w].pc = "exited" /\ wk[w].at \in InFlight
  /\ queue' = [queue EXCEPT ![wk[w].job] = @ + 1]
  /\ redeliv' = redeliv + 1
  /\ UNCHANGED <<store, now, sub, wk, entry, cn, up, eng, rd, documents, srch, chk, hits, gen, emb, scr>>

\* ---------------------------------------------- Cancel: cancelEvaluation
\* calls and prev are the client's side: the requests it has finished and
\* what the last of them asked and was answered; atSave is the status the
\* record had in the store when save() ran
NoCancel == [user |-> 0, job |-> 0, seen |-> "none", resp |-> 0]
CnIdle == [pc |-> "idle", user |-> 0, job |-> 0, seen |-> "none", resp |-> 0,
           calls |-> 0, prev |-> NoCancel, atSave |-> "none"]

\* a request of client c, as it starts
CnRequest(c) == [CnIdle EXCEPT !.calls = cn[c].calls, !.prev = cn[c].prev]

\* lines 280-288: Evaluation.findOne({jobId, createdBy: userId}) and the
\* two checks
cancelEvaluation(c) ==
  /\ cn[c].pc = "idle"
  /\ \E userId \in Users, jobId \in JobIds :
       LET evaluation == store[jobId] IN
       IF ~Exists(jobId) \/ evaluation.createdBy # userId
       THEN cn' = [cn EXCEPT ![c] =
                     [CnRequest(c) EXCEPT !.pc = "done", !.user = userId,
                                          !.job = jobId, !.resp = 404]]
       ELSE IF evaluation.status \notin {"queued", "processing"}
       THEN cn' = [cn EXCEPT ![c] =
                     [CnRequest(c) EXCEPT !.pc = "done", !.user = userId,
                                          !.job = jobId, !.resp = 400,
                                          !.seen = evaluation.status]]
       ELSE cn' = [cn EXCEPT ![c] =
                     [CnRequest(c) EXCEPT !.pc = "save", !.user = userId,
                                          !.job = jobId,
                                          !.seen = evaluation.status]]
  /\ UNCHANGED <<store, now, queue, redeliv, sub, wk, entry, up, eng, rd, documents, srch, chk, hits, gen, emb, scr>>

\* the save() of a schema whose status path has no enum: the status is
\* written whatever the record holds by now
cancelEvaluation_save_noEnum(c) ==
  /\ cn[c].pc = "save"
  /\ store' = [store EXCEPT ![cn[c].job] =
                 findByIdAndUpdate(cn[c].job, [status |-> "cancelled"])]
  /\ cn' = [cn EXCEPT ![c].pc = "done", ![c].resp = 200,
                      ![c].atSave = store[cn[c].job].status]
  /\ UNCHANGED <<now, queue, redeliv, sub, wk, entry, up, eng, rd, documents, srch, chk, hits, gen, emb, scr>>

\* lines 290-303: evaluation.status = 'cancelled'; evaluation.completedAt =
\* new Date(); await evaluation.save(). save() validates the modified paths
\* first, and writes the modified schema paths (status) when they pass;
\* completedAt is no path of the schema.
cancelEvaluation_save(c) ==
  /\ cn[c].pc = "save"
  /\ IF "cancelled" \in StatusEnum
     THEN /\ store' = [store EXCEPT ![cn[c].job] =
                         findByIdAndUpdate(cn[c].job, [status |-> "cancelled"])]
          /\ cn' = [cn EXCEPT ![c].pc = "done", ![c].resp = 200,
                              ![c].atSave = store[cn[c].job].status]
     ELSE /\ store' = store
          /\ cn' = [cn EXCEPT ![c].pc = "done", ![c].resp = 500,
                              ![c].atSave = store[cn[c].job].status]
  /\ UNCHANGED <<now, queue, redeliv, sub, wk, entry, up, eng, rd, documents, srch, chk, hits, gen, emb, scr>>

\* the client of a finished Cancel request sends another one
cancelEvaluation_again(c) ==
  /\ cn[c].pc = "done"
  /\ cn[c].calls + 1 < MaxCancelCalls
  /\ cn' = [cn EXCEPT ![c] =
               [CnIdle EXCEPT !.calls = cn[c].calls + 1,
                              !.prev = [user |-> cn[c].user, job |-> cn[c].job,
                                        seen |-> cn[c].seen, resp |-> cn[c].resp]]]
  /\ UNCHANGED <<store, now, queue, redeliv, sub, wk, entry, up, eng, rd, documents, srch, chk, hits, gen, emb, scr>>

\* ------------- optimistic updates: updateStatusSafe, updateEvaluationSafe
\* calls and updated are the caller's side: the calls it has made and how
\* many of them returned the updated record
UpIdle == [pc |-> "idle", job |-> 0, status |-> Null, readV |-> 0,
           attempt |-> 0, calls |-> 0, ret |-> "none", updated |-> 0]

\* the statuses a caller may hand to updateStatusSafe
StatusArgs == StatusEnum \cup {"cancelled"}

\* updateStatusSafe lines 159-169: the patch, with the timestamp that goes
\* with the status
updateData(status) ==
  IF status = "processing"
  THEN [status |-> status, processingStartedAt |-> now]
  ELSE IF status \in {"completed", "failed"}
  THEN [status |-> status, processingCompletedAt |-> now]
  ELSE [status |-> status]

\* how a call ends: back to idle with what it returned
UpReturn(a, ret) ==
  [UpIdle EXCEPT !.calls = up[a].calls + 1, !.ret = ret,
                 !.updated = up[a].updated + (IF ret = "updated" THEN 1 ELSE 0)]

\* updateStatusSafe(evaluationId, status) is called
updateStatusSafe(a) ==
  /\ up[a].pc = "idle"
  /\ up[a].calls < MaxCalls
  /\ \E evaluationId \in JobIds, status \in StatusArgs :
       up' = [up EXCEPT ![a] = [UpIdle EXCEPT !.pc = "read", !.job = evaluationId,
                                              !.status = status,
                                              !.calls = up[a].calls,
                                              !.updated = up[a].updated]]
  /\ UNCHANGED <<store, now, queue, redeliv, sub, wk, entry, cn, eng, rd, documents, srch, chk, hits, gen, emb, scr>>

\* updateEvaluationSafe lines 90-95: Evaluation.findById; a missing record
\* ends the call with createMockEvaluation
updateEvaluationSafe_read(a) ==
  /\ up[a].pc = "read"
  /\ up' = IF Exists(up[a].job)
           THEN [up EXCEPT ![a].pc = "write", ![a].readV = store[up[a].job].v]
           ELSE [up EXCEPT ![a] = UpReturn(a, "mock")]
  /\ UNCHANGED <<store, now, queue, redeliv, sub, wk, entry, cn, eng, rd, documents, srch, chk, hits, gen, emb, scr>>

\* the write with a filter of {_id} alone: the patch is applied to
\* whatever version the record has by now
updateEvaluationSafe_write_noVersion(a) ==
  /\ up[a].pc = "write"
  /\ LET j == up[a].job
         attempt == up[a].attempt + 1
     IN
       IF up[a].status \notin StatusEnum
       THEN /\ store' = store
            /\ up' = IF attempt >= retryCount
                     THEN [up EXCEPT ![a] = UpReturn(a, "mock")]
                     ELSE [up EXCEPT ![a].pc = "read", ![a].attempt = attempt]
       ELSE /\ store' = [store EXCEPT ![j] =
                           [findByIdAndUpdate(j, updateData(up[a].status))
                              EXCEPT !.v = store[j].v + 1]]
            /\ up' = [up EXCEPT ![a] = UpReturn(a, "updated")]
  /\ UNCHANGED <<now, queue, redeliv, sub, wk, entry, cn, eng, rd, documents, srch, chk, hits, gen, emb, scr>>

\* updateEvaluationSafe lines 98-135: findOneAndUpdate({_id, __v: the
\* version read}, {...updateData, $inc: {__v: 1}}, {runValidators: true}).
\*  - a status outside the enum fails validation: the inner catch counts the
\*    attempt and throws at the third, and updateStatusSafe answers the
\*    throw with createMockEvaluation;
\*  - a matching version applies the patch and increments __v;
\*  - a version that moved on counts the attempt and loops; when the loop
\*    ends the function returns nothing.
updateEvaluationSafe_write(a) ==
  /\ up[a].pc = "write"
  /\ LET j == up[a].job
         attempt == up[a].attempt + 1
     IN
       IF up[a].status \notin StatusEnum
       THEN /\ store' = store
            /\ up' = IF attempt >= retryCount
                     THEN [up EXCEPT ![a] = UpReturn(a, "mock")]
                     ELSE [up EXCEPT ![a].pc = "read", ![a].attempt = attempt]
       ELSE IF store[j].v = up[a].readV
       THEN /\ store' = [store EXCEPT ![j] =
                           [findByIdAndUpdate(j, updateData(up[a].status))
                              EXCEPT !.v = store[j].v + 1]]
            /\ up' = [up EXCEPT ![a] = UpReturn(a, "updated")]
       ELSE /\ store' = store
            /\ up' = IF attempt < retryCount
                     THEN [up EXCEPT ![a].pc = "read", ![a].attempt = attempt]
                     ELSE [up EXCEPT ![a] = UpReturn(a, "undefined")]
  /\ UNCHANGED <<now, queue, redeliv, sub, wk, entry, cn, eng, rd, documents, srch, chk, hits, gen, emb, scr>>

\* ------------------------------------ the LLM client and the Engine
\* retryWithBackoff(fn, maxRetries = 3, baseDelay = 1000); generateCompletion
\* calls it with (fn, 3, 2000)
maxRetries == 3
baseDelay == 2000

\* what POST /chat/completions answers: a completion, a 503, no answer at
\* all, a 429 that is a plain rate limit, or a 429 that signals an exhausted
\* quota and carries a Retry-After header
Responses == {"ok", "503", "network", "rateLimit", "quota"}

\* the vector index (ChromaDB) during one run: it answers the queries, it
\* answers every query with an error, or it cannot be reached
IndexStates == {"ok", "erroring", "unreachable"}

\* the message of the error generateOverallRecommendation builds in its
\* isQuotaError branch (line 208)
QuotaMessage ==
  "CV evaluation service is temporarily unavailable due to API usage limits"

NoResult == [done |-> FALSE, success |-> FALSE, statusCode |-> 0,
             isQuotaError |-> FALSE, retryAfter |-> "none"]

\* error.response?.status of the axios error
statusCode(response) ==
  IF response = "503" THEN 503
  ELSE IF response \in {"rateLimit", "quota"} THEN 429
  ELSE 0

\* generateCompletion lines 203-266: what it returns for the answer that
\* ended the retry loop. The failure result is {success: false, content,
\* error, statusCode}: it has no isQuotaError and no retryAfter property,
\* whatever the answer was.
generateCompletion_result(response) ==
  IF response = "ok"
  THEN [NoResult EXCEPT !.done = TRUE, !.success = TRUE]
  ELSE [NoResult EXCEPT !.done = TRUE, !.statusCode = statusCode(response)]

\* one Engine per worker process: the singleton evaluationService, whose
\* isInitialized outlives the runs, and the run of performEvaluation in
\* progress with the chat call of its current stage
EngIdle == [pc |-> "idle", isInitialized |-> FALSE, index |-> "ok",
            context |-> "none", cvEvaluation |-> "none",
            projectEvaluation |-> "none",
            attempts |-> 0, waited |-> 0, last |-> "none", all503 |-> TRUE,
            llmResult |-> NoResult]

Stages == {"cv", "project", "rec"}

\* the call fields of a run, ready for the chat call of the next stage
NextCall(e, stage) ==
  [e EXCEPT !.pc = stage, !.attempts = 0, !.waited = 0, !.last = "none",
            !.all503 = TRUE, !.llmResult = NoResult]

\* where the Engine of worker w is once performEvaluation has returned or
\* thrown
EngDone(w) == [EngIdle EXCEPT !.isInitialized = eng[w].isInitialized]

\* performEvaluation lines 38-46: initialize() when the service is not yet
\* initialized. It connects the LLM client and the vector index
\* (ragService.initialize -> chromaDB.connect -> heartbeat) outside the try
\* of performEvaluation: an index that cannot be reached makes the call
\* throw, and isInitialized stays false.
performEvaluation(w) ==
  /\ wk[w].pc = "engine"
  /\ eng[w].pc = "idle"
  /\ \E index \in IndexStates :
       IF ~eng[w].isInitialized /\ index = "unreachable"
       THEN /\ eng' = eng
            /\ wk' = [wk EXCEPT ![w].pc = "catch", ![w].err = "errInit"]
       ELSE /\ eng' = [eng EXCEPT ![w] =
                         [EngIdle EXCEPT !.pc = "rag", !.isInitialized = TRUE,
                                         !.index = index]]
            /\ wk' = wk
  /\ UNCHANGED <<store, now, queue, redeliv, sub, entry, cn, up, rd, documents, srch, chk, hits, gen, emb, scr>>

\* performEvaluation lines 48-61 with retrieveEvaluationContext and
\* retrieveProjectContext: every query is in a try of its own, and
\* searchSimilar answers an error with empty lists, so an index that fails
\* gives a context of empty lists
performEvaluation_retrieve(w) ==
  /\ eng[w].pc = "rag"
  /\ eng' = [eng EXCEPT ![w] =
               NextCall([eng[w] EXCEPT !.context =
                           IF eng[w].index = "ok" THEN "retrieved" ELSE "empty"],
                        "cv")]
  /\ UNCHANGED <<store, now, queue, redeliv, sub, wk, entry, cn, up, rd, documents, srch, chk, hits, gen, emb, scr>>

\* retryWithBackoff with the test of the last attempt off by one
\* (i === maxRetries): one attempt more is made
retryWithBackoff_offByOne(w) ==
  /\ eng[w].pc \in Stages
  /\ ~eng[w].llmResult.done
  /\ LET i == eng[w].attempts IN
     \E response \in Responses :
       eng' = [eng EXCEPT ![w] =
                 IF response = "ok"
                 THEN [eng[w] EXCEPT !.attempts = i + 1,
                                     !.llmResult = generateCompletion_result(response)]
                 ELSE IF i = maxRetries
                 THEN [eng[w] EXCEPT !.attempts = i + 1, !.last = response,
                                     !.all503 = @ /\ response = "503",
                                     !.llmResult = generateCompletion_result(response)]
                 ELSE [eng[w] EXCEPT !.attempts = i + 1, !.last = response,
                                     !.all503 = @ /\ response = "503",
                                     !.waited = @ + baseDelay * 2^i]]
  /\ UNCHANGED <<store, now, queue, redeliv, sub, wk, entry, cn, up, rd, documents, srch, chk, hits, gen, emb, scr>>

\* one turn of the loop of retryWithBackoff around the POST of
\* generateCompletion (lines 195-197); attempts is the loop index i.
\*   return await fn()                      the first answer that is no
\*                                          error ends the loop
\*   if (i === maxRetries - 1) throw error  whatever the error is
\*   await delay(baseDelay * 2^i)
\* What the loop ends with becomes the result of generateCompletion.
retryWithBackoff(w) ==
  /\ eng[w].pc \in Stages
  /\ ~eng[w].llmResult.done
  /\ LET i == eng[w].attempts IN
     \E response \in Responses :
       eng' = [eng EXCEPT ![w] =
                 IF response = "ok"
                 THEN [eng[w] EXCEPT !.attempts = i + 1,
                                     !.llmResult = generateCompletion_result(response)]
                 ELSE IF i = maxRetries - 1
                 THEN [eng[w] EXCEPT !.attempts = i + 1, !.last = response,
                                     !.all503 = @ /\ response = "503",
                                     !.llmResult = generateCompletion_result(response)]
                 ELSE [eng[w] EXCEPT !.attempts = i + 1, !.last = response,
                                     !.all503 = @ /\ response = "503",
                                     !.waited = @ + baseDelay * 2^i]]
  /\ UNCHANGED <<store, now, queue, redeliv, sub, wk, entry, cn, up, rd, documents, srch, chk, hits, gen, emb, scr>>

\* the attempts of the current call that failed
Failures(e) == IF e.llmResult.success THEN e.attempts - 1 ELSE e.attempts

\* evaluateCV lines 130-151: the parsed LLM answer when the call succeeded,
\* generateFallbackCVEvaluation when it did not
evaluateCV(w) ==
  /\ eng[w].pc = "cv"
  /\ eng[w].llmResult.done
  /\ eng' = [eng EXCEPT ![w] =
               NextCall([eng[w] EXCEPT
                           !.cvEvaluation =
                              IF eng[w].llmResult.success THEN "llm" ELSE "fallback"],
                        "project")]
  /\ UNCHANGED <<store, now, queue, redeliv, sub, wk, entry, cn, up, rd, documents, srch, chk, hits, gen, emb, scr>>

\* evaluateProject lines 158-179
evaluateProject(w) ==
  /\ eng[w].pc = "project"
  /\ eng[w].llmResult.done
  /\ eng' = [eng EXCEPT ![w] =
               NextCall([eng[w] EXCEPT
                           !.projectEvaluation =
                              IF eng[w].llmResult.success THEN "llm" ELSE "fallback"],
                        "rec")]
  /\ UNCHANGED <<store, now, queue, redeliv, sub, wk, entry, cn, up, rd, documents, srch, chk, hits, gen, emb, scr>>

\* performEvaluation lines 85-117: the results compiled from the three
\* stages, as the token the worker writes
results(e) ==
  IF e.cvEvaluation = "llm" /\ e.projectEvaluation = "llm" THEN resA ELSE resB

\* generateOverallRecommendation lines 186-232, then the end of
\* performEvaluation: a successful call is parsed and the results are
\* returned; a failed one throws, with the quota message when the result
\* says isQuotaError and with 'Overall recommendation generation failed'
\* otherwise. No fallback is tried (lines 222-226 are commented out).
generateOverallRecommendation(w) ==
  /\ eng[w].pc = "rec"
  /\ eng[w].llmResult.done
  /\ wk[w].pc = "engine"
  /\ wk' = IF eng[w].llmResult.success
           THEN [wk EXCEPT ![w].pc = "complete", ![w].res = results(eng[w])]
           ELSE IF eng[w].llmResult.isQuotaError
           THEN [wk EXCEPT ![w].pc = "catch", ![w].err = QuotaMessage]
           ELSE [wk EXCEPT ![w].pc = "catch", ![w].err = "errRecommendation"]
  /\ eng' = [eng EXCEPT ![w] = EngDone(w)]
  /\ UNCHANGED <<store, now, queue, redeliv, sub, entry, cn, up, rd, documents, srch, chk, hits, gen, emb, scr>>

\* ------------------------- GetStatus and List: getResult, getEvaluations
RdIdle == [pc |-> "idle", op |-> "none", user |-> 0, job |-> 0, resp |-> 0,
           status |-> "none", list |-> {}, owners |-> {},
           results |-> undefined, error |-> undefined]

\* getResult lines 163-185: response.results, added when the status is
\* completed and evaluation.result is truthy, which the nested path result
\* of a mongoose document always is
response_results(evaluation) ==
  IF evaluation.status = "completed"
  THEN [cv_match_rate |-> evaluation.result["cv_match_rate"],
        project_score |-> evaluation.result["project_score"],
        overall_recommendation |-> evaluation.result["overall_summary"],
        experience_match |->
           Or(evaluation.result["cv_breakdown.experience_level"], Num(0)),
        technical_quality |->
           Or(evaluation.result["project_breakdown.correctness"], Num(100)),
        complexity_level |->
           Or(evaluation.result["project_breakdown.code_quality"], Num(100)),
        innovation_score |->
           Or(evaluation.result["project_breakdown.creativity"], Num(100)),
        documentation_quality |->
           Or(evaluation.result["project_breakdown.documentation"], Num(100)),
        detailed_feedback |->
           Or(evaluation.result["cv_feedback"],
              Or(evaluation.result["overall_summary"], Str("")))]
  ELSE undefined

\* getResult lines 188-194: response.error, added when the status is failed
\* and evaluation.errorMessage is truthy
response_error(evaluation) ==
  IF evaluation.status = "failed" /\ evaluation.errorMessage # Null
  THEN [message |-> evaluation.errorMessage,
        retry_count |-> evaluation.retryCount]
  ELSE undefined

\* populate() of cvDocumentId and projectDocumentId: a reference whose
\* document is gone is populated with null, and the handlers read ._id and
\* .filename off it without a check, which throws a TypeError (answered 500)
populated(evaluation) ==
  /\ evaluation.cvDocumentId \in documents
  /\ evaluation.projectDocumentId \in documents

\* getResult with a lookup by job id alone, findOne({jobId})
getResult_anyOwner(q) ==
  /\ rd[q].pc = "idle"
  /\ \E userId \in Users, jobId \in JobIds :
       LET evaluation == store[jobId] IN
       rd' = [rd EXCEPT ![q] =
                IF ~Exists(jobId)
                THEN [RdIdle EXCEPT !.pc = "done", !.op = "getResult",
                                    !.user = userId, !.job = jobId, !.resp = 404]
                ELSE IF ~populated(evaluation)
                THEN [RdIdle EXCEPT !.pc = "done", !.op = "getResult",
                                    !.user = userId, !.job = jobId, !.resp = 500]
                ELSE [RdIdle EXCEPT !.pc = "done", !.op = "getResult",
                                    !.user = userId, !.job = jobId, !.resp = 200,
                                    !.status = evaluation.status,
                                    !.list = {jobId},
                                    !.owners = {evaluation.createdBy},
                                    !.results = response_results(evaluation),
                                    !.error = response_error(evaluation)]]
  /\ UNCHANGED <<store, now, queue, redeliv, sub, wk, entry, cn, up, eng, documents, srch, chk, hits, gen, emb, scr>>

\* getResult lines 114-205: Evaluation.findOne({jobId, createdBy: userId});
\* 404 'Evaluation job not found' when nothing matches, the record's status
\* (and results) otherwise
getResult(q) ==
  /\ rd[q].pc = "idle"
  /\ \E userId \in Users, jobId \in JobIds :
       LET evaluation == store[jobId] IN
       rd' = [rd EXCEPT ![q] =
                IF ~Exists(jobId) \/ evaluation.createdBy # userId
                THEN [RdIdle EXCEPT !.pc = "done", !.op = "getResult",
                                    !.user = userId, !.job = jobId, !.resp = 404]
                ELSE IF ~populated(evaluation)
                THEN [RdIdle EXCEPT !.pc = "done", !.op = "getResult",
                                    !.user = userId, !.job = jobId, !.resp = 500]
                ELSE [RdIdle EXCEPT !.pc = "done", !.op = "getResult",
                                    !.user = userId, !.job = jobId, !.resp = 200,
                                    !.status = evaluation.status,
                                    !.list = {jobId},
                                    !.owners = {evaluation.createdBy},
                                    !.results = response_results(evaluation),
                                    !.error = response_error(evaluation)]]
  /\ UNCHANGED <<store, now, queue, redeliv, sub, wk, entry, cn, up, eng, documents, srch, chk, hits, gen, emb, scr>>

\* what a List request may ask for in its status parameter
StatusFilters == StatusEnum \cup {"any"}

\* getEvaluations lines 213-268: Evaluation.paginate({createdBy: userId,
\* status?}); the pages are modelled as one
getEvaluations(q) ==
  /\ rd[q].pc = "idle"
  /\ \E userId \in Users, status \in StatusFilters :
       LET docs == {j \in JobIds :
                      /\ Exists(j)
                      /\ store[j].createdBy = userId
                      /\ status # "any" => store[j].status = status}
       IN rd' = [rd EXCEPT ![q] =
                   IF \E j \in docs : ~populated(store[j])
                   THEN [RdIdle EXCEPT !.pc = "done", !.op = "getEvaluations",
                                       !.user = userId, !.resp = 500,
                                       !.status = status]
                   ELSE [RdIdle EXCEPT !.pc = "done", !.op = "getEvaluations",
                                       !.user = userId, !.resp = 200,
                                       !.status = status, !.list = docs,
                                       !.owners = {store[j].createdBy : j \in docs}]]
  /\ UNCHANGED <<store, now, queue, redeliv, sub, wk, entry, cn, up, eng, documents, srch, chk, hits, gen, emb, scr>>

\* ------------------------------------------ documents: deleteDocument
\* DELETE /documents/:documentId (upload controller lines 164-178 and
\* document.service.js lines 92-104): the uploader of a document deletes
\* it, the record goes with findByIdAndDelete. A request for a document
\* that is not there or is someone else's is answered 404 and changes
\* nothing.
deleteDocument ==
  /\ \E userId \in Users, documentId \in DocRefs :
       /\ getDocumentById(documentId, userId)
       /\ DocOwner(documentId) = userId
       /\ documents' = documents \ {documentId}
  /\ UNCHANGED <<store, now, queue, redeliv, sub, wk, entry, cn, up, eng, rd, srch, chk, hits, gen, emb, scr>>

\* ------------------------------------------ Search: searchRelevantChunks
\* connection_chromadb.js lines 43-64: the collections connect() creates
CollectionNames ==
  {"job_descriptions", "cv_documents", "project_documents", "rubrics",
   "case_studies"}

\* the RAG service and the ChromaDB connection after construction
SrchIdle == [pc |-> "idle", isInitialized |-> FALSE, isConnected |-> FALSE,
             collections |-> {}, collectionName |-> "none",
             queryEmbedding |-> "none", found |-> "none", ret |-> "none",
             calls |-> 0]

\* searchRelevantChunks lines 104-107: a caller asks for the chunks of a
\* collection; a service that is not initialized goes to initialize() first
searchRelevantChunks ==
  /\ srch.pc \in {"idle", "done"}
  /\ srch.calls < MaxSearches
  /\ \E collectionName \in CollectionNames :
       srch' = [srch EXCEPT !.pc = IF srch.isInitialized THEN "embed"
                                   ELSE "initialize",
                            !.collectionName = collectionName,
                            !.queryEmbedding = "none", !.found = "none",
                            !.ret = "none", !.calls = srch.calls + 1]
  /\ UNCHANGED <<store, now, queue, redeliv, sub, wk, entry, cn, up, eng, rd, documents, chk, hits, gen, emb, scr>>

\* initialize (rag.service.js lines 14-31) with chromaDB.connect and
\* initializeCollections: the heartbeat of a server that cannot be reached
\* throws, connect and initialize throw it on, and the call of initialize
\* stands before the try of searchRelevantChunks. With the server there,
\* each getOrCreateCollection that fails is logged and its collection is
\* left out of the map.
initialize ==
  /\ srch.pc = "initialize"
  /\ \/ srch' = [srch EXCEPT !.pc = "done", !.found = "unreachable",
                             !.ret = "throws"]
     \/ \E created \in SUBSET CollectionNames :
          srch' = [srch EXCEPT !.pc = "embed", !.isConnected = TRUE,
                               !.isInitialized = TRUE,
                               !.collections = created]
  /\ UNCHANGED <<store, now, queue, redeliv, sub, wk, entry, cn, up, eng, rd, documents, chk, hits, gen, emb, scr>>

\* generateEmbeddings(query) (rag.service.js lines 37-49 over
\* connection_llm.js lines 335-460): the embedding of the model, or the
\* hash-based one that llmConnection returns with fallback: true when every
\* way of asking the model failed; neither throws
generateEmbeddings ==
  /\ srch.pc = "embed"
  /\ \E queryEmbedding \in {"model", "hash_based"} :
       srch' = [srch EXCEPT !.pc = "search", !.queryEmbedding = queryEmbedding]
  /\ UNCHANGED <<store, now, queue, redeliv, sub, wk, entry, cn, up, eng, rd, documents, chk, hits, gen, emb, scr>>

\* chromaDB.searchSimilar (lines 139-186) and the rest of
\* searchRelevantChunks (lines 123-151): getCollection stands before the
\* try of searchSimilar and throws for a collection that is not in the map,
\* which the catch of searchRelevantChunks throws on; inside the try an
\* empty collection and a count or query that fails give empty lists.
searchSimilar ==
  /\ srch.pc = "search"
  /\ IF ~srch.isConnected \/ srch.collectionName \notin srch.collections
     THEN srch' = [srch EXCEPT !.pc = "done", !.found = "missing",
                               !.ret = "throws"]
     ELSE \E answer \in {"documents", "empty", "error"} :
            srch' = [srch EXCEPT !.pc = "done", !.found = answer,
                                 !.ret = IF answer = "documents"
                                         THEN "chunks" ELSE "empty"]
  /\ UNCHANGED <<store, now, queue, redeliv, sub, wk, entry, cn, up, eng, rd, documents, chk, hits, gen, emb, scr>>

\* ------------------------------------- chunking: splitTextIntoChunks
\* A text is its length and its marks, the positions (from 0) of its
\* characters that are not letters: full stops, newlines and spaces.
TextLengths == {0, 49, 50, 51, 849, 850, 851, 1000, 1001, 1300, 1800}
MarkPositions == {0, 49, 500, 501, 600, 849, 999, 1200}
MarkChars == {".", "\n", " "}
Texts ==
  { [length |-> n, marks |-> m] :
      n \in TextLengths,
      m \in { ms \in SUBSET (MarkPositions \X MarkChars) :
                /\ Cardinality(ms) <= MaxMarks
                /\ \A x \in ms, y \in ms : x[1] = y[1] => x = y } }

charAt(text, i) ==
  IF \E m \in text.marks : m[1] = i
  THEN (CHOOSE m \in text.marks : m[1] = i)[2]
  ELSE "a"

\* String.prototype.lastIndexOf(ch, position): the last index <= position
\* that holds ch, or -1
lastIndexOf(text, ch, position) ==
  LET found == { m[1] : m \in { x \in text.marks :
                    x[2] = ch /\ x[1] <= position /\ x[1] < text.length } }
  IN IF found = {} THEN -1 ELSE CHOOSE p \in found : \A q \in found : q <= p

isWhitespace(ch) == ch \in {" ", "\n"}

RECURSIVE trimStart(_, _, _)
trimStart(text, from, to) ==
  IF from < to /\ isWhitespace(charAt(text, from))
  THEN trimStart(text, from + 1, to) ELSE from

RECURSIVE trimEnd(_, _, _)
trimEnd(text, from, to) ==
  IF from < to /\ isWhitespace(charAt(text, to - 1))
  THEN trimEnd(text, from, to - 1) ELSE to

\* text.slice(start, end).trim(): the chunk as the part [from, to) of the
\* text it is; its length is to - from
slice_trim(text, start, end) ==
  LET to0 == Math_min(end, text.length)
      from == trimStart(text, start, to0)
  IN [from |-> from, to |-> trimEnd(text, from, to0)]

length(chunk) == chunk.to - chunk.from

ChkIdle == [pc |-> "idle", text |-> [length |-> 0, marks |-> {}], start |-> 0,
            chunks |-> <<>>, ret |-> <<>>]

\* splitTextIntoChunks lines 329-331: const chunks = []; let start = 0
splitTextIntoChunks ==
  /\ chk.pc = "idle"
  /\ \E text \in Texts :
       chk' = [ChkIdle EXCEPT !.pc = "loop", !.text = text]
  /\ UNCHANGED <<store, now, queue, redeliv, sub, wk, entry, cn, up, eng, rd, documents, srch, hits, gen, emb, scr>>

\* the loop of a chunker called with an overlap as wide as its window
splitTextIntoChunks_loop_noAdvance ==
  /\ chk.pc = "loop"
  /\ chk.start < chk.text.length
  /\ LET chunkSize == 1000
         overlap == 1000
         text == chk.text
         start == chk.start
         window == start + chunkSize
         lastPeriod == lastIndexOf(text, ".", window)
         lastNewline == lastIndexOf(text, "\n", window)
         lastBoundary == Math_max(lastPeriod, lastNewline)
         end == IF window < text.length
                   /\ 2 * lastBoundary > 2 * start + chunkSize
                THEN lastBoundary + 1 ELSE window
     IN chk' = [chk EXCEPT !.chunks = Append(@, slice_trim(text, start, end)),
                           !.start = end - overlap]
  /\ UNCHANGED <<store, now, queue, redeliv, sub, wk, entry, cn, up, eng, rd, documents, srch, hits, gen, emb, scr>>

\* lines 333-349, one pass of the while loop as indexDocument calls it
\* (line 65: splitTextIntoChunks(document.content, 1000, 200)): the window
\* [start, end), its end moved behind the last full stop or newline when
\* that lies past half of the window, is pushed and the next start is
\* end - overlap
splitTextIntoChunks_loop ==
  /\ chk.pc = "loop"
  /\ chk.start < chk.text.length
  /\ LET chunkSize == 1000
         overlap == 200
         text == chk.text
         start == chk.start
         window == start + chunkSize
         lastPeriod == lastIndexOf(text, ".", window)
         lastNewline == lastIndexOf(text, "\n", window)
         lastBoundary == Math_max(lastPeriod, lastNewline)
         end == IF window < text.length
                   /\ 2 * lastBoundary > 2 * start + chunkSize
                THEN lastBoundary + 1 ELSE window
     IN chk' = [chk EXCEPT !.chunks = Append(@, slice_trim(text, start, end)),
                           !.start = end - overlap]
  /\ UNCHANGED <<store, now, queue, redeliv, sub, wk, entry, cn, up, eng, rd, documents, srch, hits, gen, emb, scr>>

\* line 351: return chunks.filter(chunk => chunk.length > 50)
splitTextIntoChunks_return ==
  /\ chk.pc = "loop"
  /\ ~(chk.start < chk.text.length)
  /\ chk' = [chk EXCEPT !.pc = "done",
                        !.ret = SelectSeq(chk.chunks, LAMBDA chunk : length(chunk) > 50)]
  /\ UNCHANGED <<store, now, queue, redeliv, sub, wk, entry, cn, up, eng, rd, documents, srch, hits, gen, emb, scr>>

\* ------------------------- Search: the chunks searchRelevantChunks returns
\* Distances and similarities are counted in hundredths. A collection is
\* the distances of its chunks from the query, chunk i being its i-th.
Distances == {0, 30, 70, 71, 100, 150}
Collections ==
  UNION { [1..n -> Distances] : n \in 1..MaxChunks }
MaxResults == {1, 2, 5}
SimilarityThresholds == {0, 30, 70}

\* collection.query with nResults (connection_chromadb.js lines 157-174):
\* the nResults nearest chunks, nearest first, as documents and distances
RECURSIVE nearest(_, _, _)
nearest(collection, ids, nResults) ==
  IF ids = {} \/ nResults = 0 THEN <<>>
  ELSE LET doc == CHOOSE i \in ids :
                    \A k \in ids :
                       \/ collection[i] < collection[k]
                       \/ collection[i] = collection[k] /\ i <= k
       IN <<doc>> \o nearest(collection, ids \ {doc}, nResults - 1)

collection_query(collection, nResults) ==
  LET documents_ == nearest(collection, DOMAIN collection, nResults)
  IN [documents |-> documents_,
      distances |-> [i \in 1..Len(documents_) |-> collection[documents_[i]]]]

\* Array.prototype.sort((a, b) => b.similarity - a.similarity): stable,
\* by similarity in descending order
RECURSIVE insertSorted(_, _)
insertSorted(sorted, chunk) ==
  IF sorted = <<>> THEN <<chunk>>
  ELSE IF Head(sorted).similarity >= chunk.similarity
       THEN <<Head(sorted)>> \o insertSorted(Tail(sorted), chunk)
       ELSE <<chunk>> \o sorted

RECURSIVE sort(_)
sort(array) ==
  IF array = <<>> THEN <<>>
  ELSE insertSorted(sort(SubSeq(array, 1, Len(array) - 1)), array[Len(array)])

\* rag.service.js lines 134-141: each document with similarity
\* 1 - (distance || 1) and distance (distance || 1), those of similarity
\* >= similarityThreshold, sorted by similarity in descending order
relevantChunks(searchResults, similarityThreshold) ==
  LET distance(index) ==
        IF searchResults.distances[index] = 0 THEN 100
        ELSE searchResults.distances[index]
      mapped == [index \in 1..Len(searchResults.documents) |->
                   [content |-> searchResults.documents[index],
                    similarity |-> 100 - distance(index),
                    distance |-> distance(index)]]
  IN sort(SelectSeq(mapped, LAMBDA chunk : chunk.similarity >= similarityThreshold))

HitsIdle == [pc |-> "idle", collection |-> <<>>, maxResults |-> 5,
             similarityThreshold |-> 30,
             searchResults |-> [documents |-> <<>>, distances |-> <<>>],
             ret |-> <<>>]

\* searchRelevantChunks lines 109-128: the options (maxResults = 5 and
\* similarityThreshold = 0.3 unless given) and the result of searchSimilar
\* for the query in a collection
searchSimilar_query ==
  /\ hits.pc = "idle"
  /\ \E collection \in Collections, maxResults \in MaxResults,
        similarityThreshold \in SimilarityThresholds :
       hits' = [HitsIdle EXCEPT !.pc = "found",
                  !.collection = collection,
                  !.maxResults = maxResults,
                  !.similarityThreshold = similarityThreshold,
                  !.searchResults = collection_query(collection, maxResults)]
  /\ UNCHANGED <<store, now, queue, redeliv, sub, wk, entry, cn, up, eng, rd, documents, srch, chk, gen, emb, scr>>

\* searchRelevantChunks lines 130-145: no documents give the empty list,
\* otherwise the relevant chunks are returned
searchRelevantChunks_return ==
  /\ hits.pc = "found"
  /\ hits' = [hits EXCEPT !.pc = "done",
                !.ret = IF Len(hits.searchResults.documents) = 0 THEN <<>>
                        ELSE relevantChunks(hits.searchResults,
                                            hits.similarityThreshold)]
  /\ UNCHANGED <<store, now, queue, redeliv, sub, wk, entry, cn, up, eng, rd, documents, srch, chk, gen, emb, scr>>

\* ------------------------------------ the chat call: generateCompletion
\* what connect() meets (connection_llm.js lines 96-133): no OPENAPI_KEY in
\* the environment, a GET /models of testConnection that fails, or an API
\* that answers
ConnectOutcomes == {"noKey", "unreachable", "connected"}

\* the data of a 2xx answer to POST /chat/completions (lines 203-248):
\* choices with a message, a content property, a plain string, an object
\* with neither (for example choices: []), or no data at all
ResponseData == {"choices", "content", "string", "noChoices", "noData"}

\* lines 251-266, the catch of generateCompletion: the failure value
generateCompletion_failure(error, status) ==
  [thrown |-> FALSE, success |-> FALSE, content |-> "", error |-> error,
   statusCode |-> status]

\* lines 203-248: the value for a 2xx answer by its data; the two throws
\* are inside the try and end in the catch
generateCompletion_data(data) ==
  IF data = "noData"
  THEN generateCompletion_failure("No data in LLM API response", 0)
  ELSE IF data \in {"choices", "content", "string"}
  THEN [thrown |-> FALSE, success |-> TRUE, content |-> data, error |-> "",
        statusCode |-> 0]
  ELSE generateCompletion_failure("Unexpected response format from LLM API", 0)

\* an error that leaves generateCompletion
generateCompletion_throws(error) ==
  [thrown |-> TRUE, success |-> FALSE, content |-> "", error |-> error,
   statusCode |-> 0]

NoCompletion ==
  [thrown |-> FALSE, success |-> FALSE, content |-> "", error |-> "none",
   statusCode |-> 0]

\* the singleton llmConnection after construction (lines 9-15) and the
\* call in progress
GenIdle == [pc |-> "idle", isConnected |-> FALSE, attempts |-> 0,
            last |-> "none", ret |-> NoCompletion, calls |-> 0]

\* generateCompletion lines 162-165: a connection that is not connected
\* goes to connect() first, before the try
generateCompletion ==
  /\ gen.pc \in {"idle", "done"}
  /\ gen.calls < MaxCompletions
  /\ gen' = [gen EXCEPT !.pc = IF gen.isConnected THEN "post" ELSE "connect",
                        !.attempts = 0, !.last = "none",
                        !.ret = NoCompletion, !.calls = @ + 1]
  /\ UNCHANGED <<store, now, queue, redeliv, sub, wk, entry, cn, up, eng, rd, documents, srch, chk, hits, emb, scr>>

\* connect() lines 96-133: a missing key and a failed testConnection set
\* isConnected to false and throw; the await of generateCompletion (line
\* 164) is outside its try, so the error leaves generateCompletion
connect ==
  /\ gen.pc = "connect"
  /\ \E outcome \in ConnectOutcomes :
       gen' = IF outcome = "connected"
              THEN [gen EXCEPT !.pc = "post", !.isConnected = TRUE]
              ELSE [gen EXCEPT !.pc = "done", !.isConnected = FALSE,
                      !.ret = generateCompletion_throws(
                                IF outcome = "noKey"
                                THEN "LLM API key not found"
                                ELSE "connection test failed")]
  /\ UNCHANGED <<store, now, queue, redeliv, sub, wk, entry, cn, up, eng, rd, documents, srch, chk, hits, emb, scr>>

\* lines 178-266, one turn of retryWithBackoff(post, 3, 2000) and what
\* follows the answer that ends the loop: the value for a 2xx answer by
\* its data, the failure value with the status of the error otherwise
generateCompletion_post ==
  /\ gen.pc = "post"
  /\ LET i == gen.attempts IN
     \E response \in Responses, data \in ResponseData :
       gen' = IF response = "ok"
              THEN [gen EXCEPT !.pc = "done", !.attempts = i + 1,
                               !.ret = generateCompletion_data(data)]
              ELSE IF i = maxRetries - 1
              THEN [gen EXCEPT !.pc = "done", !.attempts = i + 1,
                               !.last = response,
                               !.ret = generateCompletion_failure(
                                          response, statusCode(response))]
              ELSE [gen EXCEPT !.attempts = i + 1, !.last = response]
  /\ UNCHANGED <<store, now, queue, redeliv, sub, wk, entry, cn, up, eng, rd, documents, srch, chk, hits, emb, scr>>

\* ------------------------------------------ Embed: generateEmbeddings
\* a text to embed, as its character codes
CharCodes == {97, 98, 225}
EmbedTexts == UNION { [1..n -> CharCodes] : n \in 0..MaxTextLen }

\* what POST /embeddings answers for a text: item.embedding
ApiEmbeddings == {<<60, 80>>, <<80, 60>>}

\* the content of a chat answer by how many numbers are left of it after
\* lines 406-411 (everything but digits, commas, dots and minus signs
\* removed, split at the commas, parsed, the first 128 taken)
ContentNumbers == {0, 1, 127, 128, 129}

\* the outcomes of a run of Math.random() calls
Randoms == {"r1", "r2"}

\* generateHashBasedEmbedding lines 467-480: embedding[(char + i) % 128]
\* += sin(char * 0.1) * cos(i * 0.1) for the characters of the text from
\* i = 0. A component is kept as the terms <<char, i>> added to it, in
\* their order; the division by the magnitude is the same function of
\* these terms for every component.
RECURSIVE generateHashBasedEmbedding_loop(_, _, _)
generateHashBasedEmbedding_loop(text, i, embedding) ==
  IF ~(i < Len(text)) THEN embedding
  ELSE LET char == text[i + 1]
           index == (char + i) % 128
       IN generateHashBasedEmbedding_loop(text, i + 1,
            [embedding EXCEPT ![index] = Append(@, <<char, i>>)])

generateHashBasedEmbedding(text) ==
  generateHashBasedEmbedding_loop(text, 0, [index \in 0..127 |-> <<>>])

\* lines 406-422: the first 128 numbers of the content, padded to 128 with
\* (Math.random() - 0.5) * 2 when they are fewer, and normalized. The
\* vector is kept as the count of its numbers that come from the content
\* and the outcome of the Math.random() calls that made the others.
llmEmbedding(numbers, random) ==
  [fromContent |-> Math_min(numbers, 128),
   padding |-> IF numbers < 128 THEN random ELSE "none"]

\* the text, the call in progress and what the calls made so far returned:
\* the strategy path taken (method), what the provider answered on it and
\* the vector (embeddings)
EmbIdle == [pc |-> "idle", text |-> <<>>, ret |-> <<>>]

\* generateEmbeddings lines 335-341, called with a text for the first time
\* and with the same text once more; a connect() that throws (lines
\* 337-339) ends in the outer catch
generateEmbeddings_call ==
  /\ emb.pc \in {"idle", "done"}
  /\ Len(emb.ret) < 2
  /\ \E text \in EmbedTexts, connected \in BOOLEAN :
       /\ emb.pc = "done" => text = emb.text
       /\ emb' = [emb EXCEPT !.pc = IF connected THEN "endpoint" ELSE "catch",
                             !.text = text]
  /\ UNCHANGED <<store, now, queue, redeliv, sub, wk, entry, cn, up, eng, rd, documents, srch, chk, hits, gen, scr>>

\* lines 346-379, method 1: the embeddings endpoint answers and its
\* embedding is returned, or it fails and method 2 is tried
generateEmbeddings_endpoint ==
  /\ emb.pc = "endpoint"
  /\ \/ \E embedding \in ApiEmbeddings :
          emb' = [emb EXCEPT !.pc = "done",
                    !.ret = Append(@, [method |-> "openai_embeddings",
                                       answer |-> embedding,
                                       embeddings |-> embedding])]
     \/ emb' = [emb EXCEPT !.pc = "completion"]
  /\ UNCHANGED <<store, now, queue, redeliv, sub, wk, entry, cn, up, eng, rd, documents, srch, chk, hits, gen, scr>>

\* lines 381-440, method 2: the chat call; a content gives the vector
\* parsed from it (lines 403-422), a call that did not succeed or an empty
\* content gives the hash-based embedding (lines 427-431)
generateEmbeddings_completion ==
  /\ emb.pc = "completion"
  /\ \/ \E numbers \in ContentNumbers, random \in Randoms :
          emb' = [emb EXCEPT !.pc = "done",
                    !.ret = Append(@, [method |-> "llm_completion",
                                       answer |-> numbers,
                                       embeddings |-> llmEmbedding(numbers, random)])]
     \/ emb' = [emb EXCEPT !.pc = "done",
                  !.ret = Append(@, [method |-> "llm_completion_hash",
                                     answer |-> "none",
                                     embeddings |->
                                        generateHashBasedEmbedding(emb.text)])]
  /\ UNCHANGED <<store, now, queue, redeliv, sub, wk, entry, cn, up, eng, rd, documents, srch, chk, hits, gen, scr>>

\* lines 442-459, the outer catch: the hash-based embedding, fallback: true
generateEmbeddings_catch ==
  /\ emb.pc = "catch"
  /\ emb' = [emb EXCEPT !.pc = "done",
               !.ret = Append(@, [method |-> "hash_based",
                                  answer |-> "none",
                                  embeddings |->
                                     generateHashBasedEmbedding(emb.text)])]
  /\ UNCHANGED <<store, now, queue, redeliv, sub, wk, entry, cn, up, eng, rd, documents, srch, chk, hits, gen, scr>>

\* --------------------------- the scoring stages and their fallback scorers
\* an array value, and {} (an object without properties)
Arr(a) == [t |-> "array", v |-> a]
EmptyObject == <<>>

\* What generateEvaluation (connection_llm.js lines 489-546) gives a stage:
\* it throws; the chat call failed (success: false); the content is JSON
\* (parsed is set); or the content is no JSON and parsed is not set, the
\* content being a JSON object with text around it ("wrapped"), text without
\* braces ("text"), or text whose part from the first { to the last } is
\* no JSON ("broken")

\* the objects a CV answer and a project answer can hold
CVObjects ==
  { [matchRate |-> Num(85), experienceMatch |-> Num(70),
     strengths |-> Arr(<<"Node.js">>)],
    [matchRate |-> Num(30)] }
ProjectObjects ==
  { [overallScore |-> Num(420), technicalQuality |-> Num(400),
     complexityLevel |-> Num(350), innovationScore |-> Num(300),
     documentationQuality |-> Num(450), strengths |-> Arr(<<"Clean code">>)],
    [overallScore |-> Num(300)] }

Answers(objects) ==
  { [kind |-> k, object |-> o] :
      k \in {"json", "wrapped"}, o \in objects }
  \cup { [kind |-> k, object |-> undefined] :
           k \in {"throws", "failed", "text", "broken"} }

\* Array.isArray(evaluation.strengths) ? evaluation.strengths : []
arrayOr(value) == IF value.t = "array" THEN value.v ELSE <<>>

\* fallbackParseCVEvaluation lines 535-544 and
\* fallbackParseProjectEvaluation lines 551-562
fallbackParseCVEvaluation ==
  [matchRate |-> Num(50), experienceMatch |-> Num(50),
   strengths |-> Arr(<<"Evaluation completed">>)]
fallbackParseProjectEvaluation ==
  [overallScore |-> Num(300), technicalQuality |-> Num(300),
   complexityLevel |-> Num(300), innovationScore |-> Num(300),
   documentationQuality |-> Num(300),
   strengths |-> Arr(<<"Basic implementation completed">>)]

\* parseCVEvaluation lines 412-423 and parseProjectEvaluation lines
\* 445-456: the object the fields are read from. parsed when it is an
\* object; otherwise the JSON of content.match(/\{[\s\S]*\}/), {} when
\* nothing matches, and the fallback parse when JSON.parse throws
evaluationOf(answer, fallbackParse) ==
  CASE answer.kind \in {"json", "wrapped"} -> answer.object
    [] answer.kind = "text" -> EmptyObject
    [] answer.kind = "broken" -> fallbackParse

\* parseCVEvaluation lines 412-437 on (content, parsed)
parseCVEvaluation_answer(answer) ==
  LET evaluation == evaluationOf(answer, fallbackParseCVEvaluation)
      scores == parseCVEvaluation(evaluation)
  IN [matchRate |-> scores.matchRate,
      experienceMatch |-> scores.experienceMatch,
      strengths |-> arrayOr(get(evaluation, "strengths"))]

\* parseProjectEvaluation lines 445-470 on (content, parsed)
parseProjectEvaluation_answer(answer) ==
  LET evaluation == evaluationOf(answer, fallbackParseProjectEvaluation)
      scores == parseProjectEvaluation(evaluation)
  IN [overallScore |-> scores.overallScore,
      technicalQuality |-> scores.technicalQuality,
      complexityLevel |-> scores.complexityLevel,
      innovationScore |-> scores.innovationScore,
      documentationQuality |-> scores.documentationQuality,
      strengths |-> arrayOr(get(evaluation, "strengths"))]

\* Math.round(x * 100) / 100 of p / q, in hundredths
roundHundredths(p, q) == (200 * p + q) \div (2 * q)

\* generateFallbackCVEvaluation lines 575-600, by the words of the job
\* title and how many of them match a word of the CV
generateFallbackCV(matchingWords, jobWords) ==
  LET matchRate ==
        Math_min(90, Math_max(30, roundHundredths(matchingWords, jobWords)))
  IN [matchRate |-> Num(matchRate), experienceMatch |-> Num(matchRate),
      strengths |-> <<"CV content reviewed", "Basic qualifications identified",
                      "Experience level assessed">>]

\* generateFallbackProjectEvaluation lines 609-642, by the length of the
\* project text and whether it holds code and documentation keywords; the
\* lengths are multiples of 400, whose bonus is a whole number of tenths
generateFallbackProject(contentLength, hasCode, hasDocumentation) ==
  LET baseScore == 300
      lengthBonus == Math_min(100, (contentLength * 50) \div 2000)
      codeBonus == IF hasCode THEN 50 ELSE 0
      docBonus == IF hasDocumentation THEN 30 ELSE 0
      finalScore == Math_min(500, baseScore + lengthBonus + codeBonus + docBonus)
  IN [overallScore |-> Num(finalScore), technicalQuality |-> Num(finalScore),
      complexityLevel |-> Num(finalScore), innovationScore |-> Num(finalScore),
      documentationQuality |-> Num(IF hasDocumentation THEN 400 ELSE 300),
      strengths |-> <<"Project content analyzed",
                      IF hasCode THEN "Code implementation identified"
                      ELSE "Project structure reviewed",
                      IF hasDocumentation THEN "Documentation present"
                      ELSE "Basic project information available">>]

\* the texts of a job as the fallback scorers see them
JobWords == {1, 2}
ContentLengths == {0, 400, 4000}
StageInputs ==
  { [jobWords |-> n, matchingWords |-> m, contentLength |-> l,
     hasCode |-> c, hasDocumentation |-> d] :
      n \in JobWords, m \in 0..2, l \in ContentLengths,
      c \in BOOLEAN, d \in BOOLEAN }

NoAnswer == [kind |-> "none", object |-> undefined]
ScrIdle == [pc |-> "idle",
            input |-> [jobWords |-> 1, matchingWords |-> 0, contentLength |-> 0,
                       hasCode |-> FALSE, hasDocumentation |-> FALSE],
            cvAnswer |-> NoAnswer, cvEvaluation |-> EmptyObject,
            projectAnswer |-> NoAnswer, projectEvaluation |-> EmptyObject]

\* performEvaluation lines 38-43: the job title and the two texts of a job
performEvaluation_stages ==
  /\ scr.pc = "idle"
  /\ \E input \in StageInputs :
       /\ input.matchingWords <= input.jobWords
       /\ scr' = [ScrIdle EXCEPT !.pc = "cv", !.input = input]
  /\ UNCHANGED <<store, now, queue, redeliv, sub, wk, entry, cn, up, eng, rd, documents, srch, chk, hits, gen, emb>>

\* evaluateCV lines 130-151: the parsed answer when the call succeeded,
\* generateFallbackCVEvaluation when it did not or threw; the chain goes
\* on with the project stage
evaluateCV_stage ==
  /\ scr.pc = "cv"
  /\ \E answer \in Answers(CVObjects) :
       scr' = [scr EXCEPT !.pc = "project", !.cvAnswer = answer,
                 !.cvEvaluation =
                    IF answer.kind \in {"throws", "failed"}
                    THEN generateFallbackCV(scr.input.matchingWords,
                                            scr.input.jobWords)
                    ELSE parseCVEvaluation_answer(answer)]
  /\ UNCHANGED <<store, now, queue, redeliv, sub, wk, entry, cn, up, eng, rd, documents, srch, chk, hits, gen, emb>>

\* evaluateProject lines 158-179; the chain goes on with the recommendation
evaluateProject_stage ==
  /\ scr.pc = "project"
  /\ \E answer \in Answers(ProjectObjects) :
       scr' = [scr EXCEPT !.pc = "rec", !.projectAnswer = answer,
                 !.projectEvaluation =
                    IF answer.kind \in {"throws", "failed"}
                    THEN generateFallbackProject(scr.input.contentLength,
                                                 scr.input.hasCode,
                                                 scr.input.hasDocumentation)
                    ELSE parseProjectEvaluation_answer(answer)]
  /\ UNCHANGED <<store, now, queue, redeliv, sub, wk, entry, cn, up, eng, rd, documents, srch, chk, hits, gen, emb>>

\* ------------------------------------------------------ the pipeline

Init ==
  /\ store = [j \in JobIds |-> Absent]
  /\ now = 1
  /\ queue = [j \in JobIds |-> 0]
  /\ redeliv = 0
  /\ sub = [r \in Reqs |-> SubIdle]
  /\ wk = [w \in Workers |-> WkIdle]
  /\ entry = "startWorker"
  /\ cn = [c \in Cancels |-> CnIdle]
  /\ up = [a \in Updaters |-> UpIdle]
  /\ eng = [w \in Workers |-> EngIdle]
  /\ rd = [q \in Readers |-> RdIdle]
  /\ documents = Docs
  /\ srch = SrchIdle
  /\ chk = ChkIdle
  /\ hits = HitsIdle
  /\ gen = GenIdle
  /\ emb = EmbIdle
  /\ scr = ScrIdle

Next ==
  \/ \E r \in Reqs : startEvaluation(r)
  \/ \E r \in Reqs : createEvaluationAtomic_upsert(r)
  \/ \E r \in Reqs : createEvaluationAtomic_insert(r)
  \/ \E r \in Reqs : startEvaluation_enqueue(r)
  \/ \E r \in Reqs : startEvaluation_enqueueFails(r)
  \/ \E w \in Workers : worker_take(w)
  \/ \E w \in Workers : worker_processing(w)
  \/ \E w \in Workers : worker_engineReturns(w)
  \/ \E w \in Workers : worker_engineThrows(w)
  \/ \E w \in Workers : worker_completed(w)
  \/ \E w \in Workers : worker_catch(w)
  \/ \E w \in Workers : queue_redeliver(w)
  \/ \E c \in Cancels : cancelEvaluation(c)
  \/ \E c \in Cancels : cancelEvaluation_save(c)

Spec == Init /\ [][Next]_vars

\* --------------------------------------------- one job and its deliveries
\* one Submit, so that no two requests can mint the same job id: what the
\* workers, the re-delivery of the work item and Cancel do to one job
NextDelivery ==
  \/ startEvaluation(1)
  \/ createEvaluationAtomic_upsert(1)
  \/ createEvaluationAtomic_insert(1)
  \/ startEvaluation_enqueue(1)
  \/ startEvaluation_enqueueFails(1)
  \/ \E w \in Workers : worker_take(w)
  \/ \E w \in Workers : worker_processing(w)
  \/ \E w \in Workers : worker_engineReturns(w)
  \/ \E w \in Workers : worker_engineThrows(w)
  \/ \E w \in Workers : worker_completed(w)
  \/ \E w \in Workers : worker_catch(w)
  \/ \E w \in Workers : queue_redeliver(w)
  \/ \E c \in Cancels : cancelEvaluation(c)
  \/ \E c \in Cancels : cancelEvaluation_save(c)

SpecDelivery == Init /\ [][NextDelivery]_vars

\* ------------------------------------------- shutdown of worker processes
\* one Submit feeds the worker processes, which are started either way
InitShutdown ==
  /\ store = [j \in JobIds |-> Absent]
  /\ now = 1
  /\ queue = [j \in JobIds |-> 0]
  /\ redeliv = 0
  /\ sub = [r \in Reqs |-> SubIdle]
  /\ wk = [w \in Workers |-> WkIdle]
  /\ entry \in {"startWorker", "evaluationWorker"}
  /\ cn = [c \in Cancels |-> CnIdle]
  /\ up = [a \in Updaters |-> UpIdle]
  /\ eng = [w \in Workers |-> EngIdle]
  /\ rd = [q \in Readers |-> RdIdle]
  /\ documents = Docs
  /\ srch = SrchIdle
  /\ chk = ChkIdle
  /\ hits = HitsIdle
  /\ gen = GenIdle
  /\ emb = EmbIdle
  /\ scr = ScrIdle

NextShutdown ==
  \/ startEvaluation(1)
  \/ createEvaluationAtomic_upsert(1)
  \/ createEvaluationAtomic_insert(1)
  \/ startEvaluation_enqueue(1)
  \/ \E w \in Workers : worker_take(w)
  \/ \E w \in Workers : worker_processing(w)
  \/ \E w \in Workers : worker_engineReturns(w)
  \/ \E w \in Workers : worker_engineThrows(w)
  \/ \E w \in Workers : worker_completed(w)
  \/ \E w \in Workers : worker_catch(w)
  \/ \E w \in Workers : signal_startWorker(w)
  \/ \E w \in Workers : signal_evaluationWorker(w)
  \/ \E w \in Workers : queue_redeliver(w)

SpecShutdown == InitShutdown /\ [][NextShutdown]_vars

\* ------------------------------------------------ the optimistic updates
\* the store after one Submit by user 1: job 1 is queued, job 2 is an id
\* that has no record
InitUpd ==
  /\ store = [j \in JobIds |->
                IF j = 1
                THEN [Absent EXCEPT !.status = "queued", !.createdBy = 1,
                                    !.cvDocumentId = 1,
                                    !.projectDocumentId = 2,
                                    !.createdAt = 1]
                ELSE Absent]
  /\ now = 1
  /\ queue = [j \in JobIds |-> 0]
  /\ redeliv = 0
  /\ sub = [r \in Reqs |-> SubIdle]
  /\ wk = [w \in Workers |-> WkIdle]
  /\ entry = "startWorker"
  /\ cn = [c \in Cancels |-> CnIdle]
  /\ up = [a \in Updaters |-> UpIdle]
  /\ eng = [w \in Workers |-> EngIdle]
  /\ rd = [q \in Readers |-> RdIdle]
  /\ documents = Docs
  /\ srch = SrchIdle
  /\ chk = ChkIdle
  /\ hits = HitsIdle
  /\ gen = GenIdle
  /\ emb = EmbIdle
  /\ scr = ScrIdle

NextUpd ==
  \/ Tick
  \/ \E a \in Updaters : updateStatusSafe(a)
  \/ \E a \in Updaters : updateEvaluationSafe_read(a)
  \/ \E a \in Updaters : updateEvaluationSafe_write(a)

SpecUpd == InitUpd /\ [][NextUpd]_vars

\* ------------------------------------------ one worker and its Engine
\* one Submit and one worker process, whose Engine runs stage by stage; the
\* work item can be delivered a second time, which gives the process a
\* second run
NextEngine ==
  \/ startEvaluation(1)
  \/ createEvaluationAtomic_upsert(1)
  \/ createEvaluationAtomic_insert(1)
  \/ startEvaluation_enqueue(1)
  \/ worker_take(1)
  \/ worker_processing(1)
  \/ performEvaluation(1)
  \/ performEvaluation_retrieve(1)
  \/ retryWithBackoff(1)
  \/ evaluateCV(1)
  \/ evaluateProject(1)
  \/ generateOverallRecommendation(1)
  \/ worker_completed(1)
  \/ worker_catch(1)
  \/ queue_redeliver(1)

SpecEngine == Init /\ [][NextEngine]_vars

\* ------------------------------------------------- the owners of the jobs
\* the Submits of all users, one worker process, and the requests that read
\* or cancel a job by its id
NextOwner ==
  \/ \E r \in Reqs : startEvaluation(r)
  \/ \E r \in Reqs : createEvaluationAtomic_upsert(r)
  \/ \E r \in Reqs : createEvaluationAtomic_insert(r)
  \/ \E r \in Reqs : startEvaluation_enqueue(r)
  \/ worker_take(1)
  \/ worker_processing(1)
  \/ worker_engineReturns(1)
  \/ worker_engineThrows(1)
  \/ worker_completed(1)
  \/ worker_catch(1)
  \/ \E c \in Cancels : cancelEvaluation(c)
  \/ \E c \in Cancels : cancelEvaluation_save(c)
  \/ \E q \in Readers : getResult(q)
  \/ \E q \in Readers : getEvaluations(q)

SpecOwner == Init /\ [][NextOwner]_vars

\* One Submit, one worker process and a client that sends Cancel requests
\* one after the other.
NextCancel ==
  \/ startEvaluation(1)
  \/ createEvaluationAtomic_upsert(1)
  \/ createEvaluationAtomic_insert(1)
  \/ startEvaluation_enqueue(1)
  \/ worker_take(1)
  \/ worker_processing(1)
  \/ worker_engineReturns(1)
  \/ worker_engineThrows(1)
  \/ worker_completed(1)
  \/ worker_catch(1)
  \/ \E c \in Cancels : cancelEvaluation(c)
  \/ \E c \in Cancels : cancelEvaluation_save(c)
  \/ \E c \in Cancels : cancelEvaluation_again(c)

SpecCancel == Init /\ [][NextCancel]_vars

\* One Submit and one worker process whose Engine is answered by the LLM in
\* every stage, with whatever content.
NextResult ==
  \/ startEvaluation(1)
  \/ createEvaluationAtomic_upsert(1)
  \/ createEvaluationAtomic_insert(1)
  \/ startEvaluation_enqueue(1)
  \/ worker_take(1)
  \/ worker_processing(1)
  \/ performEvaluation_answered(1)
  \/ worker_completed(1)

SpecResult == Init /\ [][NextResult]_vars

\* Several Submits and worker processes, with an Engine that returns for
\* every item. Every handler that has started runs on to its end, and a
\* worker process that is idle takes the next item of the queue.
NextJobs ==
  \/ \E r \in Reqs : startEvaluation(r)
  \/ \E r \in Reqs : createEvaluationAtomic_upsert(r)
  \/ \E r \in Reqs : createEvaluationAtomic_insert(r)
  \/ \E r \in Reqs : startEvaluation_enqueue(r)
  \/ \E w \in Workers : worker_take(w)
  \/ \E w \in Workers : worker_processing(w)
  \/ \E w \in Workers : worker_engineReturns(w)
  \/ \E w \in Workers : worker_completed(w)

SpecJobs ==
  /\ Init
  /\ [][NextJobs]_vars
  /\ \A r \in Reqs :
        /\ WF_vars(createEvaluationAtomic_upsert(r))
        /\ WF_vars(createEvaluationAtomic_insert(r))
        /\ WF_vars(startEvaluation_enqueue(r))
  /\ \A w \in Workers :
        /\ WF_vars(worker_take(w))
        /\ WF_vars(worker_processing(w))
        /\ WF_vars(worker_engineReturns(w))
        /\ WF_vars(worker_completed(w))

\* One Submit, one worker process, GetStatus requests and the deletion of
\* documents.
NextRead ==
  \/ startEvaluation(1)
  \/ createEvaluationAtomic_upsert(1)
  \/ createEvaluationAtomic_insert(1)
  \/ startEvaluation_enqueue(1)
  \/ worker_take(1)
  \/ worker_processing(1)
  \/ worker_engineReturns(1)
  \/ worker_engineThrows(1)
  \/ worker_completed(1)
  \/ worker_catch(1)
  \/ \E q \in Readers : getResult(q)
  \/ deleteDocument

SpecRead == Init /\ [][NextRead]_vars

\* The RAG service serving Search requests.
NextSearch ==
  \/ searchRelevantChunks
  \/ initialize
  \/ generateEmbeddings
  \/ searchSimilar

SpecSearch == Init /\ [][NextSearch]_vars

\* The chunker of indexDocument, called with a text; a call that has
\* started runs on.
NextChunk ==
  \/ splitTextIntoChunks
  \/ splitTextIntoChunks_loop
  \/ splitTextIntoChunks_return

SpecChunk ==
  /\ Init
  /\ [][NextChunk]_vars
  /\ WF_vars(splitTextIntoChunks_loop)
  /\ WF_vars(splitTextIntoChunks_return)

\* A Search from the result of the vector index to the chunks returned.
NextHits ==
  \/ searchSimilar_query
  \/ searchRelevantChunks_return

SpecHits == Init /\ [][NextHits]_vars

\* The LLM connection serving one chat call after another.
NextCompletion ==
  \/ generateCompletion
  \/ connect
  \/ generateCompletion_post

SpecCompletion == Init /\ [][NextCompletion]_vars

\* One text embedded twice.
NextEmbed ==
  \/ generateEmbeddings_call
  \/ generateEmbeddings_endpoint
  \/ generateEmbeddings_completion
  \/ generateEmbeddings_catch

SpecEmbed == Init /\ [][NextEmbed]_vars

\* The two scoring stages of one evaluation.
NextStages ==
  \/ performEvaluation_stages
  \/ evaluateCV_stage
  \/ evaluateProject_stage

SpecStages == Init /\ [][NextStages]_vars

\* ================================================================ claims

Terminal == {"completed", "failed", "cancelled"}

\* the edges of the job state machine (section 4.4 of the specification),
\* with the creation of the record
ValidTransition(a, b) ==
  \/ a = b
  \/ a = "absent" /\ b = "queued"
  \/ a = "queued" /\ b \in {"processing", "cancelled"}
  \/ a = "processing" /\ b \in {"completed", "failed", "cancelled"}

\* C1: for every job, every change of the stored status is an edge of
\* queued -> processing -> {completed | failed}, with cancelled reached from
\* queued or processing only; a completed, failed or cancelled job keeps its
\* status for ever.
C1_StatusMonotonic ==
  [][\A j \in JobIds : ValidTransition(store[j].status, store'[j].status)]_vars

\* the step in which worker w writes 'completed' for its item
CompletedWrite(w) == wk[w].pc = "complete" /\ wk'[w].outcome = "completed"

\* C2: when two deliveries of one work item race to the terminal write, the
\* second write, which finds the job already completed, is refused with a
\* ConcurrencyError and changes nothing: the record keeps the single
\* processing-completed-at and the version that the first terminal write,
\* by incrementing it, gave it.
C2_SecondTerminalWriteRefused ==
  [][\A w \in Workers :
       (CompletedWrite(w) /\ store[wk[w].job].status = "completed") =>
         LET j == wk[w].job IN
           /\ store'[j] = store[j]
           /\ store[j].processingCompletedAt # NoTime
           /\ store[j].v > wk[w].v0]_vars

C4_ResultStatusConsistent ==
  \A j \in JobIds :
    Exists(j) =>
      /\ (store[j].result # EmptyResult) <=> (store[j].status = "completed")
      /\ (store[j].errorMessage # Null) => (store[j].status = "failed")

\* C5: every step that changes the record of a job increases its version.
C5_VersionStrictlyIncreases ==
  [][\A j \in JobIds :
       (Exists(j) /\ store'[j] # store[j]) => store'[j].v > store[j].v]_vars

\* C6: a worker process never leaves a job in processing: once a worker
\* process has exited, every job whose status is processing is the current
\* item of a worker that is still running and past its processing write.
C6_NoJobLeftProcessing ==
  \A w \in Workers :
    wk[w].pc = "exited" =>
      \A j \in JobIds :
        store[j].status = "processing" =>
          \E x \in Workers :
            wk[x].pc \in {"engine", "complete", "catch"} /\ wk[x].job = j

\* C7: createEvaluationAtomic, called with a jobId that has a record,
\* leaves that record as it is.
C7_CreateAtomicIdempotent ==
  [][\A r \in Reqs :
       (sub[r].pc = "create" /\ sub'[r].pc # "create" /\ Exists(sub[r].job))
         => store'[sub[r].job] = store[sub[r].job]]_vars

\* C8: Submit calls that have all succeeded returned pairwise distinct job
\* ids, and each of these ids has a record that is the caller's own.
C8_DistinctJobIds ==
  \A r1 \in Reqs, r2 \in Reqs :
    (r1 # r2 /\ sub[r1].pc = "done" /\ sub[r2].pc = "done")
      => /\ sub[r1].job # sub[r2].job
         /\ Exists(sub[r1].job)
         /\ store[sub[r1].job].createdBy = sub[r1].user

\* C9: a step of updateEvaluationSafe on a valid patch changes the record
\* only if the version is the one it read, and then increments it by one;
\* it makes at most retryCount attempts; and when it returns, it returns
\* the updated record or a concurrency error.
C9_UpdateOptimistic ==
  [][\A a \in Updaters :
       (up[a].pc = "write" /\ up[a].status \in StatusEnum /\ up'[a] # up[a]) =>
         LET j == up[a].job IN
           /\ store'[j] # store[j] =>
                (store[j].v = up[a].readV /\ store'[j].v = store[j].v + 1)
           /\ up'[a].attempt < retryCount
           /\ up'[a].pc = "idle" => up'[a].ret \in {"updated", "ConcurrencyError"}]_vars

\* the step in which worker w runs its catch block for what the Engine threw
CatchWrite(w) ==
  wk[w].pc = "catch" /\ wk'[w].outcome = "failed" /\ wk[w].err \in EngineErrors

\* C10: when the Engine throws, the worker sets the job to failed, with the
\* message of the exception as error-message and retry-count incremented.
C10_EngineErrorMarksFailed ==
  [][\A w \in Workers :
       CatchWrite(w) =>
         LET j == wk[w].job IN
           /\ store'[j].status = "failed"
           /\ store'[j].errorMessage = wk[w].err
           /\ store'[j].retryCount = store[j].retryCount + 1]_vars

\* C11: when the chat call of the overall-recommendation stage ends on a
\* quota error, the Engine throws the error whose message says 'temporarily
\* unavailable' and 'API usage limits', which is what the job fails with.
C11_QuotaErrorSurfaces ==
  [][\A w \in Workers :
       ( /\ eng[w].pc = "rec"
         /\ eng[w].llmResult.done
         /\ ~eng[w].llmResult.success
         /\ eng[w].last = "quota"
         /\ eng'[w].pc = "idle" )
       => /\ wk'[w].pc = "catch"
          /\ wk'[w].err = QuotaMessage]_vars

\* the step in which the chat call of worker w's Engine makes an attempt
Attempt(w) == eng[w].pc \in Stages /\ eng'[w].attempts = eng[w].attempts + 1

\* the conditions the LLM client may retry
Transient == {"503", "network", "rateLimit"}

\* C12: a chat call makes no attempt after an answer that signals an
\* exhausted quota, and the result of a call that ended on such an answer
\* is typed (isQuotaError set, Retry-After copied); a transient failure
\* before the last attempt is retried.
C12_QuotaNotRetried ==
  [][\A w \in Workers :
       Attempt(w) =>
         /\ eng[w].last # "quota"
         /\ ( /\ eng'[w].llmResult.done
              /\ ~eng'[w].llmResult.success
              /\ eng'[w].last = "quota" )
            => /\ eng'[w].llmResult.isQuotaError
               /\ eng'[w].llmResult.retryAfter = "copied"
         /\ ( /\ ~eng'[w].llmResult.success
              /\ eng'[w].last \in Transient
              /\ eng[w].attempts < maxRetries - 1 )
            => ~eng'[w].llmResult.done]_vars

\* C13: a chat call makes at most maxRetries attempts; while it goes on it
\* has waited baseDelay * 2^i after its i-th failed attempt (i from 0); it
\* ends at its first success, or at its maxRetries-th failure, after which
\* it waits no more.
C13_RetryBound ==
  \A w \in Workers :
    LET e == eng[w] IN
      e.pc \in Stages =>
        /\ e.attempts <= maxRetries
        /\ IF ~e.llmResult.done
           THEN /\ e.attempts < maxRetries
                /\ e.waited = baseDelay * (2^e.attempts - 1)
           ELSE IF e.llmResult.success
           THEN e.waited = baseDelay * (2^(e.attempts - 1) - 1)
           ELSE /\ e.attempts = maxRetries
                /\ e.waited = baseDelay * (2^(maxRetries - 1) - 1)

\* a chat call that has failed maxRetries times and reported the failure
C13_Witness ==
  \E w \in Workers :
    /\ eng[w].pc \in Stages
    /\ eng[w].llmResult.done
    /\ ~eng[w].llmResult.success
    /\ eng[w].attempts = maxRetries

\* C14: a CV stage whose chat call met nothing but 503 answers, three of
\* them at most, goes on with the CV evaluation parsed from the LLM output,
\* not with the one of the fallback scorer.
C14_RetriedOutputUsed ==
  [][\A w \in Workers :
       ( /\ eng[w].pc = "cv"
         /\ eng'[w].pc = "project"
         /\ eng[w].all503
         /\ Failures(eng[w]) <= 3 )
       => eng'[w].cvEvaluation = "llm"]_vars

\* C15: whatever the state of the retrieval index, performEvaluation does
\* not throw for it: with an index that fails or cannot be reached the run
\* goes on with an empty context.
C15_RetrievalResilience ==
  [][\A w \in Workers :
       /\ (wk[w].pc = "engine" /\ eng[w].pc = "idle") => wk'[w].pc # "catch"
       /\ (eng[w].pc = "rag" /\ eng'[w].pc # "rag" /\ eng[w].index # "ok")
            => (eng'[w].pc = "cv" /\ eng'[w].context = "empty")]_vars

\* C16: at whatever stage a chat call fails for a reason other than quota,
\* the Engine goes on with a fallback and does not throw.
C16_FallbackOnLLMFailure ==
  [][\A w \in Workers :
       ( /\ eng[w].pc \in Stages
         /\ eng[w].llmResult.done
         /\ ~eng[w].llmResult.success
         /\ eng[w].last # "quota"
         /\ eng'[w].pc # eng[w].pc )
       => wk'[w].pc # "catch"]_vars

\* C17: a Submit whose enqueue fails marks its job failed, with an error
\* message, before it answers the error.
C17_EnqueueFailureMarksFailed ==
  [][\A r \in Reqs :
       (sub[r].pc = "enqueue" /\ sub'[r].pc = "error")
         => /\ store'[sub[r].job].status = "failed"
            /\ store'[sub[r].job].errorMessage # Null]_vars

\* the Submits that got past the checks and created (or found) their record
Accepted == {r \in Reqs : sub[r].pc \in {"enqueue", "done", "error"}}

\* C18: rejected Submits leave no trace: the Job Store holds no more
\* records than there are Submits that passed the checks and created one,
\* and as long as no Submit has answered 202 no work item is in the queue
\* or with a worker.
C18_RejectedSubmitCreatesNothing ==
  /\ Cardinality({j \in JobIds : Exists(j)}) <= Cardinality(Accepted)
  /\ (\A r \in Reqs : sub[r].pc # "done")
       => /\ \A j \in JobIds : queue[j] = 0
          /\ \A w \in Workers : wk[w].pc = "idle"

\* every Submit made so far has been rejected, one of them for a ref that
\* does not resolve
C18_Witness ==
  /\ \A r \in Reqs : sub[r].pc \in {"idle", "rejected"}
  /\ \E r \in Reqs : sub[r].pc = "rejected" /\ sub[r].resp = 404

\* C19: a Submit that got past the document checks names two documents of
\* the submitting user.
C19_DocumentsOwnedBySubmitter ==
  \A r \in Reqs :
    sub[r].pc \in {"create", "insert", "enqueue", "done", "error"}
      => /\ DocOwner(sub[r].cv) = sub[r].user
         /\ DocOwner(sub[r].proj) = sub[r].user

\* what GetStatus answers user u for a job id that has no record
NotFound(u, j) ==
  [RdIdle EXCEPT !.pc = "done", !.op = "getResult", !.user = u, !.job = j,
                 !.resp = 404]

C21_CancelContract ==
  [][ \A c \in Cancels :
        /\ (cn[c].pc = "save" /\ cn'[c].pc = "done")
             => /\ cn'[c].resp = 200
                /\ store'[cn[c].job].status = "cancelled"
        /\ ( /\ cn[c].pc = "idle" /\ cn'[c].pc # "idle"
             /\ store[cn'[c].job].createdBy = cn'[c].user
             /\ store[cn'[c].job].status \in {"completed", "failed"} )
             => /\ cn'[c].pc = "done"
                /\ cn'[c].resp = 400
                /\ store' = store ]_vars

\* the owner's Cancel passed both checks of the handler
CancelAccepted(request) ==
  /\ request.seen \in {"queued", "processing"}
  /\ request.resp \notin {400, 404}

C24_ProcessingTimestamps ==
  \A j \in JobIds :
     store[j].status \in {"completed", "failed"}
       => /\ store[j].processingStartedAt # NoTime
          /\ store[j].processingCompletedAt # NoTime
          /\ store[j].processingCompletedAt >= store[j].processingStartedAt
          /\ store[j].processingStartedAt >= store[j].createdAt

\* C23: after a Submit was answered 202 with job id j, a GetStatus of j by
\* the user of that Submit finds a record whose job id is j.
C23_SubmitThenGetStatus ==
  [][ \A q \in Readers, r \in Reqs :
        ( /\ rd'[q] # rd[q]
          /\ rd'[q].op = "getResult"
          /\ sub[r].pc = "done" /\ sub[r].resp = 202
          /\ rd'[q].user = sub[r].user
          /\ rd'[q].job = sub[r].job )
        => /\ rd'[q].resp = 200
           /\ rd'[q].list = {sub[r].job} ]_vars

\* C25: a GetStatus that finds the job returns no result while the job is
\* queued or processing, the error message and the retry count when it is
\* failed, and the stored result when it is completed.
C25_GetStatusReflectsStatus ==
  [][ \A q \in Readers :
        ( /\ rd'[q] # rd[q]
          /\ rd'[q].op = "getResult"
          /\ rd'[q].resp = 200 )
        => LET evaluation == store[rd'[q].job] IN
           /\ rd'[q].status = evaluation.status
           /\ evaluation.status \in {"queued", "processing"}
                => rd'[q].results = undefined
           /\ evaluation.status = "failed"
                => /\ rd'[q].error # undefined
                   /\ rd'[q].error.message = evaluation.errorMessage
                   /\ rd'[q].error.retry_count = evaluation.retryCount
           /\ evaluation.status = "completed"
                => /\ rd'[q].results # undefined
                   /\ rd'[q].results.cv_match_rate
                        = evaluation.result["cv_match_rate"]
                   /\ rd'[q].results.project_score
                        = evaluation.result["project_score"] ]_vars

\* C28: Search never fails its caller: it ends without raising an error,
\* and with an empty list when the collection is empty, missing or cannot
\* be reached.
C28_SearchNeverFails ==
  srch.pc = "done"
    => /\ srch.ret # "throws"
       /\ srch.found \in {"empty", "error", "missing", "unreachable"}
            => srch.ret = "empty"

InUnit(x) == x.t = "number" /\ 0 <= x.v /\ x.v <= 100
InFive(x) == x.t = "number" /\ 100 <= x.v /\ x.v <= 500

\* the recommendation of a stored result
StoredRecommendation(result) ==
  Or(get(result, "recommendation"),
     Or(get(result, "overall_recommendation"), get(result, "overall_summary")))

\* C26: the stored result of every completed job has cv_match_rate and
\* every field of cv_breakdown in [0,1], project_score and every field of
\* project_breakdown in [1,5], and a recommendation that is HIRE,
\* CONDITIONAL_HIRE or REJECT, whatever the LLM answered.
C26_ScoreRanges ==
  \A j \in JobIds :
     store[j].status = "completed"
       => LET result == store[j].result IN
          /\ InUnit(result["cv_match_rate"])
          /\ \A p \in {"cv_breakdown.technical_skills",
                        "cv_breakdown.experience_level",
                        "cv_breakdown.achievements",
                        "cv_breakdown.cultural_fit"} : InUnit(result[p])
          /\ InFive(result["project_score"])
          /\ \A p \in {"project_breakdown.correctness",
                        "project_breakdown.code_quality",
                        "project_breakdown.resilience",
                        "project_breakdown.documentation",
                        "project_breakdown.creativity"} : InFive(result[p])
          /\ StoredRecommendation(result).t = "string"
          /\ StoredRecommendation(result).v \in Recommendations

\* the LLM answered with scores in range and one of the three
\* recommendations
ValidAnswers(llm) ==
  /\ InUnit(llm.matchRate)
  /\ InFive(llm.overallScore)
  /\ llm.recommendation
       \in { <<"H","I","R","E">>,
             <<"C","O","N","D","I","T","I","O","N","A","L","_","H","I","R","E">>,
             <<"R","E","J","E","C","T">> }

\* C27: when every call of the LLM succeeded with valid output in range
\* (matchRate m, overallScore p, recommendation r), the job ends completed
\* and its stored result has cv_match_rate m, project_score p and
\* recommendation r.
C27_ValidOutputStored ==
  [][ \A w \in Workers :
        ( /\ wk[w].pc = "complete" /\ wk'[w].pc # "complete"
          /\ ValidAnswers(wk[w].llm) )
        => LET result == store'[wk[w].job].result IN
           /\ store'[wk[w].job].status = "completed"
           /\ result["cv_match_rate"] = wk[w].llm.matchRate
           /\ result["project_score"] = wk[w].llm.overallScore
           /\ StoredRecommendation(result)
                = Str(normalizeRecommendation(wk[w].llm.recommendation)) ]_vars

\* C35: Cancel never overwrites a terminal status: when a worker has written
\* completed or failed between the status check of a Cancel and its write,
\* the job keeps the worker's status and result and the Cancel does not
\* report success.
C35_CancelKeepsTerminal ==
  [][ \A c \in Cancels :
        ( /\ cn[c].pc = "save" /\ cn'[c].pc = "done"
          /\ store[cn[c].job].status \in {"completed", "failed"} )
        => /\ store' = store
           /\ cn'[c].resp # 200 ]_vars

\* a Cancel that found its job queued or processing has made its write
\* after a worker had written completed or failed
C35_Witness ==
  \E c \in Cancels :
    /\ cn[c].pc = "done"
    /\ cn[c].seen \in {"queued", "processing"}
    /\ cn[c].atSave \in {"completed", "failed"}

\* the sum of f over the set S
RECURSIVE Sum(_, _)
Sum(f, S) ==
  IF S = {} THEN 0
  ELSE LET x == CHOOSE y \in S : TRUE IN f[x] + Sum(f, S \ {x})

\* C36: no update is lost: a call of updateEvaluationSafe that returns the
\* updated record has applied its patch to the version it had read and
\* incremented it by one, no other step of a call changes the record, and
\* the __v of the job is its initial __v plus the number of calls that
\* returned an updated record.
C36_NoLostUpdate ==
  /\ [][ \A a \in Updaters :
           up'[a] # up[a] =>
             LET j == up[a].job IN
             IF up[a].pc = "write" /\ up'[a].pc = "idle" /\ up'[a].ret = "updated"
             THEN /\ store[j].v = up[a].readV
                  /\ store'[j] = [findByIdAndUpdate(j, updateData(up[a].status))
                                    EXCEPT !.v = up[a].readV + 1]
                  /\ \A i \in JobIds \ {j} : store'[i] = store[i]
             ELSE store' = store ]_vars
  /\ [](Sum([j \in JobIds |-> store[j].v], JobIds)
          = Sum([a \in Updaters |-> up[a].updated], Updaters))

\* two callers have each had an updated record returned, one of them after
\* a version mismatch made it read again
C36_Witness ==
  /\ \A a \in Updaters : up[a].updated >= 1
  /\ \E a \in Updaters : up[a].pc = "write" /\ up[a].attempt >= 1

\* C37: every work item put on the queue refers to a record that is in the
\* store, which came into being with status queued; no worker handles an
\* item whose record does not exist.
C37_EnqueueAfterCreate ==
  /\ [][ /\ \A j \in JobIds :
             /\ queue'[j] > queue[j] => Exists(j)
             /\ (~Exists(j) /\ store'[j].status # "absent")
                  => store'[j].status = "queued"
        /\ \A w \in Workers :
             (wk[w].pc = "start" /\ wk'[w].pc # "start")
               => Exists(wk[w].job) /\ wk'[w].pc = "engine" ]_vars
  /\ [](\A j \in JobIds : queue[j] > 0 => Exists(j))
  /\ [](\A w \in Workers : wk[w].pc \in InFlight => Exists(wk[w].job))

\* a worker has taken an item from the queue and written processing to
\* its record while another item waits on the queue
C37_Witness ==
  /\ \E w \in Workers : wk[w].pc = "engine"
  /\ \E j \in JobIds : queue[j] > 0

\* C34: the chunking of IndexDocument discards exactly the chunks shorter
\* than 50 characters: what splitTextIntoChunks returns are the chunks of
\* 50 characters or more, in their order, and no other.
C34_DiscardsShorterThan50 ==
  chk.pc = "done" =>
    chk.ret = SelectSeq(chk.chunks, LAMBDA chunk : length(chunk) >= 50)

\* C39: splitTextIntoChunks terminates for every text with chunk size 1000
\* and overlap 200: each pass of the loop moves start forward by at least
\* one character, and a call that has started returns.
C39_ChunkerTerminates ==
  /\ [][ (chk.pc = "loop" /\ chk'.pc = "loop") => chk'.start >= chk.start + 1 ]_vars
  /\ (chk.pc = "loop") ~> (chk.pc = "done")

\* a call has returned after three passes of the loop, one of which ended
\* its chunk behind a full stop or a newline
C39_Witness ==
  /\ chk.pc = "done"
  /\ Len(chk.chunks) >= 3
  /\ \E i \in 1..Len(chk.chunks) :
       /\ chk.chunks[i].to < chk.text.length
       /\ charAt(chk.text, chk.chunks[i].to - 1) \in {".", "\n"}

\* C33: Search returns exactly those of the top max-results nearest chunks
\* whose similarity, 1 - distance, is at least the threshold, for every
\* distance including 0, each with that similarity, sorted by similarity
\* in descending order.
C33_SearchThreshold ==
  hits.pc = "done" =>
    LET found == hits.searchResults
        expected == { found.documents[i] : i \in
                        { k \in 1..Len(found.documents) :
                            100 - found.distances[k] >= hits.similarityThreshold } }
    IN /\ { hits.ret[i].content : i \in 1..Len(hits.ret) } = expected
       /\ Len(hits.ret) = Cardinality(expected)
       /\ \A i \in 1..Len(hits.ret) :
             hits.ret[i].similarity = 100 - hits.collection[hits.ret[i].content]
       /\ \A i \in 1..Len(hits.ret), k \in 1..Len(hits.ret) :
             i < k => hits.ret[i].similarity >= hits.ret[k].similarity

\* C38: generateCompletion never throws: a connection failure on the lazy
\* connect, an HTTP error after the retries and a response without choices
\* are each returned to the caller as a value with success = false.
C38_CompletionNeverThrows ==
  gen.pc = "done" => ~gen.ret.thrown

\* C32: Embed is deterministic: two embeddings of the same text that took
\* the same strategy path (embeddings endpoint, chat-generated vector, hash
\* embedding) and got the same answer from the provider are identical
\* vectors; in particular the hash embedding of a text equals the hash
\* embedding of the same text.
C32_EmbedDeterministic ==
  ( /\ emb.pc = "done"
    /\ Len(emb.ret) = 2
    /\ emb.ret[1].method = emb.ret[2].method
    /\ emb.ret[1].answer = emb.ret[2].answer )
  => emb.ret[1].embeddings = emb.ret[2].embeddings

\* an Evaluate call that failed, or whose content is not valid JSON
FailedOrInvalid(answer) == answer.kind \in {"throws", "failed", "text", "broken"}

\* C31: in the CV-scoring and the project-scoring stage, when the Evaluate
\* call fails or returns content that is not valid JSON, the output of the
\* stage is what the fallback scorer of the stage computes, and the chain
\* continues with the next stage.
C31_FallbackScorer ==
  /\ (scr.pc \in {"project", "rec"} /\ FailedOrInvalid(scr.cvAnswer))
       => scr.cvEvaluation =
            generateFallbackCV(scr.input.matchingWords, scr.input.jobWords)
  /\ (scr.pc = "rec" /\ FailedOrInvalid(scr.projectAnswer))
       => scr.projectEvaluation =
            generateFallbackProject(scr.input.contentLength, scr.input.hasCode,
                                    scr.input.hasDocumentation)

====
